---- MODULE Spec2Model ----
(***************************************************************************)
(* A model of rayt (ashtkn/rayt): the shape hierarchy and its intersection *)
(* routines, the quaternion rotation, the ShapeBuilder, the recursive path *)
(* integrator and the parallel renderer with its backup-and-save policy.   *)
(*                                                                         *)
(* f64 values are modelled as exact rationals n/d in lowest terms, plus    *)
(* the three IEEE specials the code can produce by dividing by zero:       *)
(* +inf = 1/0, -inf = -1/0 and NaN = 0/0.  Rounding is not modelled, the   *)
(* sign of zero is not modelled (x/0 takes the sign of x).                 *)
(***************************************************************************)
EXTENDS Integers, Sequences, FiniteSets, TLC

VARIABLES
    \* ---- intersection machine (main.rs, the Shape hierarchy)
    hpc,        \* "build" while the ShapeList is filled, "hit" after a query
    world,      \* the ShapeList being filled by push
    hshape,     \* the shape the last hit() was called on
    hray,       \* its ray
    ht0,        \* its t0
    ht1,        \* its t1
    hres,       \* what it returned: Option<HitInfo>
    \* ---- builder machine (main.rs, ShapeBuilder)
    builder,    \* the ShapeBuilder: texture, material, shape, panicked
    bout,       \* what build() returned: Option<shape>
    blast,      \* the last stage called and the builder it was called on
    bsteps,     \* stages called so far
    bshaped,    \* a shape stage has succeeded in this chain
    bchain,     \* the last successful shape stage and the decorators since
    \* ---- trace machine (main.rs, SceneWithDepth::trace)
    tscene,     \* the scene traced: which Scene impl, and its world
    targs,      \* the arguments of the outermost call
    tpc,        \* where the running call is, or "idle", "overflow", "done"
    tray,       \* the ray argument of the running call
    tdepth,     \* the depth argument of the running call
    tstack,     \* the callers waiting for their recursive call
    tret,       \* the colour the last finished call returned
    ttests,     \* world.hit() calls made so far
    thit,       \* hit_info of the running call
    tscatter,   \* emitted and scatter_info of the running call
    tlog,       \* per call: its arguments, its hit_info, scatter attempted
    \* ---- render machine (rayt/render.rs, render_aa_with_depth)
    rpc,        \* "idle", "tracing", "joined" or "saved"
    output,     \* what the file OUTPUT_FILENAME holds
    backup,     \* what the file BACKUP_FILENAME holds
    succeeded,  \* some run has saved its render
    rdraws,     \* the random draws of the run, per pixel and sample
    img,        \* the RgbImage being filled
    pending,    \* the pixels no worker has been handed yet
    workers,    \* per pixel: how many worker threads run the closure on it
    writes,     \* per pixel: how many times it has been written
    \* ---- quaternion machine (rayt/quat.rs)
    qpc,        \* "new" | "built" | "rotated" | "back"
    quat,       \* the Quat under test: [v |-> Vec3, w |-> f64]
    qp,         \* the point handed to rotate
    qr,         \* quat.rotate(qp)
    qb,         \* quat.conj().rotate(qr)
    \* ---- texture machine (main.rs, Texture::value)
    xpc,        \* "new", then "value" after a call of value
    xtex,       \* the texture value() was called on
    xu,         \* its u
    xv,         \* its v
    xp,         \* its p
    xval,       \* what it returned, or "panic"
    \* ---- dielectric machine (main.rs, Dielectric::scatter)
    dpc,        \* "new", then "scattered"
    dmat,       \* the Dielectric
    dray,       \* the incident ray
    dhit,       \* the HitInfo
    drnd,       \* the draw Vec3::random_fill().x()
    dout,       \* what scatter returned: Option<ScatterInfo>
    \* ---- pixel machine (rayt/render.rs, the closure of for_each)
    gpc,        \* "new", "fold", "mean", "encode" or "written"
    gsamples,   \* what scene.trace returns for the samples of the pixel
    gacc,       \* pixel_color
    gi,         \* samples folded so far
    grgb        \* the pixel written

hvars == <<hpc, world, hshape, hray, ht0, ht1, hres>>
bvars == <<builder, bout, blast, bsteps, bshaped, bchain>>
tvars ==
    <<tscene, targs, tpc, tray, tdepth, tstack, tret, ttests, thit, tscatter, tlog>>
rvars ==
    <<rpc, output, backup, succeeded, rdraws, img, pending, workers, writes>>
qvars == <<qpc, quat, qp, qr, qb>>
xvars == <<xpc, xtex, xu, xv, xp, xval>>
dvars == <<dpc, dmat, dray, dhit, drnd, dout>>
gvars == <<gpc, gsamples, gacc, gi, grgb>>
vars == <<hvars, bvars, tvars, rvars, qvars, xvars, dvars, gvars>>

(***************************************************************************)
(* f64                                                                     *)
(***************************************************************************)
Abs(x) == IF x < 0 THEN -x ELSE x

Sgn(x) == IF x > 0 THEN 1 ELSE IF x < 0 THEN -1 ELSE 0

RECURSIVE Gcd(_, _)
Gcd(a, b) == IF b = 0 THEN a ELSE Gcd(b, a % b)

Lcm(a, b) == (a \div Gcd(a, b)) * b

\* The f64 n/d: lowest terms, positive denominator; d = 0 gives +inf, -inf, NaN.
F(n, d) ==
    IF d = 0 THEN [n |-> Sgn(n), d |-> 0]
    ELSE LET g == Gcd(Abs(n), Abs(d))
         IN  [n |-> Sgn(d) * (n \div g), d |-> Abs(d) \div g]

I(n) == [n |-> n, d |-> 1]

NaN == [n |-> 0, d |-> 0]
PInf == [n |-> 1, d |-> 0]
NInf == [n |-> -1, d |-> 0]

IsNaN(a) == a.d = 0 /\ a.n = 0
IsFin(a) == a.d > 0

FNeg(a) == [n |-> -a.n, d |-> a.d]

FAdd(a, b) ==
    IF IsNaN(a) \/ IsNaN(b) THEN NaN
    ELSE IF a.d = 0 /\ b.d = 0 THEN (IF a.n = b.n THEN a ELSE NaN)
    ELSE IF a.d = 0 THEN a
    ELSE IF b.d = 0 THEN b
    ELSE LET l == Lcm(a.d, b.d)
         IN  F(a.n * (l \div a.d) + b.n * (l \div b.d), l)

FSub(a, b) == FAdd(a, FNeg(b))

FMul(a, b) ==
    IF IsNaN(a) \/ IsNaN(b) THEN NaN
    ELSE IF a.d = 0 \/ b.d = 0 THEN F(Sgn(a.n) * Sgn(b.n), 0)
    ELSE F(a.n * b.n, a.d * b.d)

FDiv(a, b) ==
    IF IsNaN(a) \/ IsNaN(b) THEN NaN
    ELSE IF a.d = 0 /\ b.d = 0 THEN NaN
    ELSE IF b.d = 0 THEN I(0)
    ELSE IF a.d = 0 THEN F(a.n * (IF b.n < 0 THEN -1 ELSE 1), 0)
    ELSE IF b.n = 0 THEN F(a.n, 0)
    ELSE F(a.n * b.d, a.d * b.n)

\* a < b as f64 compares: false whenever either side is NaN.
FLt(a, b) ==
    /\ ~IsNaN(a)
    /\ ~IsNaN(b)
    /\ IF a.d = 0 /\ b.d = 0 THEN a.n < b.n
       ELSE IF a.d = 0 \/ b.d = 0 THEN a.n * b.d < b.n * a.d
       ELSE LET l == Lcm(a.d, b.d)
            IN  a.n * (l \div a.d) < b.n * (l \div b.d)

FGt(a, b) == FLt(b, a)

\* a <= b as f64 compares
FLe(a, b) == ~IsNaN(a) /\ ~IsNaN(b) /\ ~FLt(b, a)

\* a == b as f64 compares: NaN equals nothing.
FEq(a, b) == ~IsNaN(a) /\ ~IsNaN(b) /\ a = b

\* The largest k in lo..hi with k * k <= n, by bisection
RECURSIVE FloorSqrt(_, _, _)
FloorSqrt(n, lo, hi) ==
    IF lo = hi THEN lo
    ELSE LET mid == (lo + hi + 1) \div 2
         IN  IF mid * mid <= n THEN FloorSqrt(n, mid, hi)
             ELSE FloorSqrt(n, lo, mid - 1)

\* The integer whose square is n; there must be one
ISqrt(n) ==
    CHOOSE k \in {FloorSqrt(n, 0, IF n < 46340 THEN n ELSE 46340)} : k * k = n

\* sqrt, exact: the model only feeds it squares of rationals.
FSqrt(a) ==
    IF IsNaN(a) THEN NaN
    ELSE IF a.d = 0 THEN (IF a.n > 0 THEN PInf ELSE NaN)
    ELSE IF a.n < 0 THEN NaN
    ELSE [n |-> ISqrt(a.n), d |-> ISqrt(a.d)]

\* f64::min and f64::max: the other operand when one is NaN
FMin(a, b) ==
    IF IsNaN(a) THEN b ELSE IF IsNaN(b) THEN a
    ELSE IF FLt(b, a) THEN b ELSE a

FMax(a, b) ==
    IF IsNaN(a) THEN b ELSE IF IsNaN(b) THEN a
    ELSE IF FLt(a, b) THEN b ELSE a

\* A finite f64 with its fraction dropped, as an integer
Trunc(a) == Sgn(a.n) * (Abs(a.n) \div a.d)

\* Stands for i64::MAX, above every finite value of the model
I64Max == 2147483647

\* `as i64`: truncates, saturates, and takes NaN to 0
CastI64(a) ==
    IF IsNaN(a) THEN 0
    ELSE IF a.d = 0 THEN a.n * I64Max
    ELSE Trunc(a)

\* `as u8`: truncates, saturates at 0 and 255, and takes NaN to 0
CastU8(a) ==
    IF IsNaN(a) THEN 0
    ELSE IF a.d = 0 THEN (IF a.n > 0 THEN 255 ELSE 0)
    ELSE IF Trunc(a) > 255 THEN 255
    ELSE IF Trunc(a) < 0 THEN 0
    ELSE Trunc(a)

\* pi lies strictly between these two
PiBelow == F(333, 106)
PiAbove == F(355, 113)

\* floor(a / pi) for a finite a that is not 0: how many half periods of
\* sin lie between 0 and a.  The model only feeds it values for which the
\* two bounds of pi agree.
HalfPeriods(a) ==
    LET lo == FDiv(a, PiAbove)
        hi == FDiv(a, PiBelow)
        floor(q) == q.n \div q.d
    IN  CHOOSE k \in {floor(lo)} : k = floor(hi)

\* f64::sin, by its sign: 1 and -1 stand for any value of that sign.  sin
\* of a non-zero f64 is never 0, pi being no f64; sin of an infinity is NaN.
FSin(a) ==
    IF ~IsFin(a) THEN NaN
    ELSE IF a.n = 0 THEN I(0)
    ELSE IF HalfPeriods(a) % 2 = 0 THEN I(1) ELSE I(-1)

(***************************************************************************)
(* Float3 (rayt/float3.rs): Vec3, Point3 and Color are the same type       *)
(***************************************************************************)
Float3New(x, y, z) == <<x, y, z>>

V3(x, y, z) == Float3New(I(x), I(y), I(z))

Fill(value) == Float3New(value, value, value)

Zero3 == Fill(I(0))
One3 == Fill(I(1))

Xaxis == V3(1, 0, 0)
Yaxis == V3(0, 1, 0)
Zaxis == V3(0, 0, 1)

Neg3(a) == <<FNeg(a[1]), FNeg(a[2]), FNeg(a[3])>>

Add3(a, b) == <<FAdd(a[1], b[1]), FAdd(a[2], b[2]), FAdd(a[3], b[3])>>

Sub3(a, b) == <<FSub(a[1], b[1]), FSub(a[2], b[2]), FSub(a[3], b[3])>>

\* Float3 * Float3, component by component
Mul3(a, b) == <<FMul(a[1], b[1]), FMul(a[2], b[2]), FMul(a[3], b[3])>>

\* Float3 * f64
Scale3(a, s) == <<FMul(a[1], s), FMul(a[2], s), FMul(a[3], s)>>

\* Float3 / f64
Div3(a, s) == <<FDiv(a[1], s), FDiv(a[2], s), FDiv(a[3], s)>>

Dot(a, b) ==
    FAdd(FAdd(FAdd(I(0), FMul(a[1], b[1])), FMul(a[2], b[2])), FMul(a[3], b[3]))

LengthSquared(a) == Dot(a, a)

Length(a) == FSqrt(LengthSquared(a))

Normalize(a) == Div3(a, Length(a))

Reflect(a, normal) == Sub3(a, Scale3(normal, FMul(I(2), Dot(a, normal))))

(***************************************************************************)
(* Quat (rayt/quat.rs)                                                     *)
(***************************************************************************)
\* An angle is carried as the sine and cosine of its half, [s, c], which is
\* all from_rot takes from it: (s, c) = (rad * 0.5).sin_cos().
HalfSinCos(rad) == <<rad.s, rad.c>>

QuatFromRot(v, rad) ==
    LET sc == HalfSinCos(rad)
    IN  [v |-> Scale3(v, sc[1]), w |-> sc[2]]

QuatUnit == [v |-> Zero3, w |-> I(1)]

QuatConj(q) == [v |-> Neg3(q.v), w |-> q.w]

QuatRotate(q, p) ==
    LET x1 == q.v[1]
        y1 == q.v[2]
        z1 == q.v[3]
        w1 == q.w
        x2 == p[1]
        y2 == p[2]
        z2 == p[3]
        x == FSub(FAdd(FMul(w1, x2), FMul(y1, z2)), FMul(z1, y2))
        y == FSub(FAdd(FMul(w1, y2), FMul(z1, x2)), FMul(x1, z2))
        z == FSub(FAdd(FMul(w1, z2), FMul(x1, y2)), FMul(y1, x2))
        w == FSub(FAdd(FMul(x1, x2), FMul(y1, y2)), FMul(z1, z2))
    IN  Float3New(
            FAdd(FSub(FAdd(FMul(w, x1), FMul(x, w1)), FMul(y, z1)), FMul(z, y1)),
            FAdd(FSub(FAdd(FMul(w, y1), FMul(y, w1)), FMul(z, x1)), FMul(x, z1)),
            FAdd(FSub(FAdd(FMul(w, z1), FMul(z, w1)), FMul(x, y1)), FMul(y, x1)))

(***************************************************************************)
(* Option<T>: None is the empty sequence, Some(x) the sequence of x alone  *)
(***************************************************************************)
None == <<>>
Some(x) == <<x>>
IsSome(o) == o # <<>>
Unwrap(o) == o[1]

(***************************************************************************)
(* Ray: origin + direction, at(t) = origin + t * direction                 *)
(***************************************************************************)
RayNew(origin, direction) == [origin |-> origin, direction |-> direction]

RayAt(ray, t) == Add3(ray.origin, Scale3(ray.direction, t))

(***************************************************************************)
(* Textures and materials (main.rs), as the values the shapes carry        *)
(***************************************************************************)
ColorTextureNew(color) == [kind |-> "ColorTexture", color |-> color]

CheckerTextureNew(odd, even, freq) ==
    [kind |-> "CheckerTexture", odd |-> odd, even |-> even, freq |-> freq]

LambertianNew(albedo) == [kind |-> "Lambertian", albedo |-> albedo]

MetalNew(albedo, fuzz) == [kind |-> "Metal", albedo |-> albedo, fuzz |-> fuzz]

DielectricNew(ri) == [kind |-> "Dielectric", ri |-> ri]

DiffusedLightNew(emit) == [kind |-> "DiffusedLight", emit |-> emit]

Float3FromRgb(r, g, b) == Float3New(F(r, 255), F(g, 255), F(b, 255))

\* image::open(path) ... to_rgb8(): the decoded file, row by row, or None
\* when the file cannot be opened or decoded.  Four files exist for the
\* model, no two pixels of a file alike.
ImageFile(width, height) ==
    Some([width |-> width, height |-> height,
          rgb |-> [i \in 1..(width * height) |->
                      <<255 - 40 * (i - 1), 40 * (i - 1), i>>]])

ImageOpen(path) ==
    CASE path = "bricks.jpg" -> ImageFile(2, 1)
      [] path = "earth.jpg" -> ImageFile(3, 2)
      [] path = "strip.png" -> ImageFile(1, 3)
      [] path = "dot.png" -> ImageFile(1, 1)
      [] OTHER -> None

\* ImageTexture::new(path): unwrap() panics when the file does not decode
ImageTextureNew(path) ==
    LET rgb_img == Unwrap(ImageOpen(path))
    IN  [kind |-> "ImageTexture",
         pixels |-> [i \in 1..Len(rgb_img.rgb) |->
                        Float3FromRgb(rgb_img.rgb[i][1], rgb_img.rgb[i][2],
                                      rgb_img.rgb[i][3])],
         width |-> rgb_img.width, height |-> rgb_img.height]

(***************************************************************************)
(* Shapes (main.rs)                                                        *)
(***************************************************************************)
HitInfoNew(t, p, n, m, u, v) ==
    [t |-> t, p |-> p, n |-> n, m |-> m, u |-> u, v |-> v]

SphereNew(center, radius, material) ==
    [kind |-> "Sphere", center |-> center, radius |-> radius,
     material |-> material]

\* Sphere::uv takes atan2 and asin of the normal's components; the model
\* keeps (u, v) as that function of the normal, unevaluated.
SphereUv(p) == <<[uvOf |-> p, coord |-> "u"], [uvOf |-> p, coord |-> "v"]>>

\* The far root tried before the near one
SphereHitFarFirst(self, ray, t0, t1) ==
    LET oc == Sub3(ray.origin, self.center)
        a == Dot(ray.direction, ray.direction)
        b == FMul(I(2), Dot(ray.direction, oc))
        c == FSub(Dot(oc, oc), FMul(self.radius, self.radius))
        d == FSub(FMul(b, b), FMul(FMul(I(4), a), c))
        info(temp) ==
            LET p == RayAt(ray, temp)
                n == Div3(Sub3(p, self.center), self.radius)
                uv == SphereUv(n)
            IN  HitInfoNew(temp, p, n, self.material, uv[1], uv[2])
    IN  IF FGt(d, I(0))
        THEN LET near == FDiv(FSub(FNeg(b), FSqrt(d)), FMul(I(2), a))
                 far == FDiv(FAdd(FNeg(b), FSqrt(d)), FMul(I(2), a))
             IN  IF FLt(t0, far) /\ FLt(far, t1) THEN Some(info(far))
                 ELSE IF FLt(t0, near) /\ FLt(near, t1) THEN Some(info(near))
                 ELSE None
        ELSE None

SphereHit(self, ray, t0, t1) ==
    LET oc == Sub3(ray.origin, self.center)
        a == Dot(ray.direction, ray.direction)
        b == FMul(I(2), Dot(ray.direction, oc))
        c == FSub(Dot(oc, oc), FMul(self.radius, self.radius))
        d == FSub(FMul(b, b), FMul(FMul(I(4), a), c))
        info(temp) ==
            LET p == RayAt(ray, temp)
                n == Div3(Sub3(p, self.center), self.radius)
                uv == SphereUv(n)
            IN  HitInfoNew(temp, p, n, self.material, uv[1], uv[2])
    IN  IF FGt(d, I(0))
        THEN LET near == FDiv(FSub(FNeg(b), FSqrt(d)), FMul(I(2), a))
                 far == FDiv(FAdd(FNeg(b), FSqrt(d)), FMul(I(2), a))
             IN  IF FLt(t0, near) /\ FLt(near, t1) THEN Some(info(near))
                 ELSE IF FLt(t0, far) /\ FLt(far, t1) THEN Some(info(far))
                 ELSE None
        ELSE None

RectNew(x0, x1, y0, y1, k, axis, material) ==
    [kind |-> "Rect", x0 |-> x0, x1 |-> x1, y0 |-> y0, y1 |-> y1, k |-> k,
     axis |-> axis, material |-> material]

RectHit(self, ray, t0, t1) ==
    LET o == ray.origin
        dr == ray.direction
        origin == CASE self.axis = "XY" -> o
                    [] self.axis = "XZ" -> Float3New(o[1], o[3], o[2])
                    [] self.axis = "YZ" -> Float3New(o[2], o[3], o[1])
        direction == CASE self.axis = "XY" -> dr
                       [] self.axis = "XZ" -> Float3New(dr[1], dr[3], dr[2])
                       [] self.axis = "YZ" -> Float3New(dr[2], dr[3], dr[1])
        axis == CASE self.axis = "XY" -> Zaxis
                  [] self.axis = "XZ" -> Yaxis
                  [] self.axis = "YZ" -> Xaxis
        t == FDiv(FSub(self.k, origin[3]), direction[3])
        x == FAdd(origin[1], FMul(t, direction[1]))
        y == FAdd(origin[2], FMul(t, direction[2]))
    IN  IF FLt(t, t0) \/ FGt(t, t1) THEN None
        ELSE IF FLt(x, self.x0) \/ FGt(x, self.x1)
                \/ FLt(y, self.y0) \/ FGt(y, self.y1) THEN None
        ELSE Some(HitInfoNew(t, RayAt(ray, t), axis, self.material,
                  FDiv(FSub(x, self.x0), FSub(self.x1, self.x0)),
                  FDiv(FSub(y, self.y0), FSub(self.y1, self.y0))))

FlipFaceNew(shape) == [kind |-> "FlipFace", shape |-> shape]

TranslateNew(shape, offset) ==
    [kind |-> "Translate", shape |-> shape, offset |-> offset]

\* angle.to_radians() changes the unit, not the angle
ToRadians(angle) == angle

RotateNew(shape, axis, angle) ==
    [kind |-> "Rotate", shape |-> shape,
     quat |-> QuatFromRot(axis, ToRadians(angle))]

ShapeListNew == [kind |-> "ShapeList", objects |-> <<>>]

ShapeListPush(self, object) ==
    [self EXCEPT !.objects = Append(self.objects, object)]

(***************************************************************************)
(* ShapeBuilder (main.rs): every stage takes the builder and returns it.   *)
(* unwrap() of an empty field panics: the builder is then marked panicked  *)
(* and nothing more is built from it.                                      *)
(***************************************************************************)
BuilderNew ==
    [texture |-> None, material |-> None, shape |-> None, panicked |-> FALSE]

Panic(self) == [self EXCEPT !.panicked = TRUE]

\* textures

BuilderColorTexture(self, color) ==
    [self EXCEPT !.texture = Some(ColorTextureNew(color))]

BuilderCheckerTexture(self, odd_color, even_color, freq) ==
    [self EXCEPT !.texture = Some(CheckerTextureNew(
        ColorTextureNew(odd_color), ColorTextureNew(even_color), freq))]

BuilderImageTexture(self, path) ==
    IF ~IsSome(ImageOpen(path)) THEN Panic(self)
    ELSE [self EXCEPT !.texture = Some(ImageTextureNew(path))]

\* materials

BuilderDiffuseLight(self) ==
    IF ~IsSome(self.texture) THEN Panic(self)
    ELSE [self EXCEPT !.material = Some(DiffusedLightNew(Unwrap(self.texture))),
                      !.texture = None]

BuilderMaterial(self, material) ==
    [self EXCEPT !.material = Some(material), !.texture = None]

\* A lambertian stage that falls back to a default texture instead of
\* unwrapping the pending one
BuilderLambertianDefaulting(self) ==
    [self EXCEPT
        !.material = Some(LambertianNew(
            IF IsSome(self.texture) THEN Unwrap(self.texture)
            ELSE ColorTextureNew(Zero3))),
        !.texture = None]

BuilderLambertian(self) ==
    IF ~IsSome(self.texture) THEN Panic(self)
    ELSE [self EXCEPT !.material = Some(LambertianNew(Unwrap(self.texture))),
                      !.texture = None]

BuilderMetal(self, fuzz) ==
    IF ~IsSome(self.texture) THEN Panic(self)
    ELSE [self EXCEPT !.material = Some(MetalNew(Unwrap(self.texture), fuzz)),
                      !.texture = None]

\* A dielectric stage that clears the pending texture as the other
\* material stages do
BuilderDielectricConsuming(self, ri) ==
    [self EXCEPT !.material = Some(DielectricNew(ri)), !.texture = None]

BuilderDielectric(self, ri) ==
    [self EXCEPT !.material = Some(DielectricNew(ri))]

\* shapes

BuilderSphere(self, center, radius) ==
    IF ~IsSome(self.material) THEN Panic(self)
    ELSE [self EXCEPT
            !.shape = Some(SphereNew(center, radius, Unwrap(self.material))),
            !.material = None]

BuilderRect(self, x0, x1, y0, y1, k, axis) ==
    IF ~IsSome(self.material) THEN Panic(self)
    ELSE [self EXCEPT
            !.shape = Some(RectNew(x0, x1, y0, y1, k, axis,
                                   Unwrap(self.material))),
            !.material = None]

BuilderRectXY(self, x0, x1, y0, y1, k) ==
    BuilderRect(self, x0, x1, y0, y1, k, "XY")

BuilderRectXZ(self, x0, x1, y0, y1, k) ==
    BuilderRect(self, x0, x1, y0, y1, k, "XZ")

BuilderRectYZ(self, x0, x1, y0, y1, k) ==
    BuilderRect(self, x0, x1, y0, y1, k, "YZ")

\* decorators

BuilderFlipFace(self) ==
    IF ~IsSome(self.shape) THEN Panic(self)
    ELSE [self EXCEPT !.shape = Some(FlipFaceNew(Unwrap(self.shape)))]

BuilderTranslate(self, offset) ==
    IF ~IsSome(self.shape) THEN Panic(self)
    ELSE [self EXCEPT !.shape = Some(TranslateNew(Unwrap(self.shape), offset))]

BuilderRotate(self, axis, angle) ==
    IF ~IsSome(self.shape) THEN Panic(self)
    ELSE [self EXCEPT
            !.shape = Some(RotateNew(Unwrap(self.shape), axis, angle))]

\* build(self) -> Box<dyn Shape>: the shape, or a panic and no shape
BuilderBuild(self) ==
    IF ~IsSome(self.shape) THEN [panicked |-> TRUE, shape |-> None]
    ELSE [panicked |-> FALSE, shape |-> self.shape]

Box3DNew(p0, p1, material) ==
    LET m == BuilderMaterial(BuilderNew, material)
        built(b) == Unwrap(BuilderBuild(b).shape)
        s1 == built(BuilderRectXY(m, p0[1], p1[1], p0[2], p1[2], p1[3]))
        s2 == built(BuilderFlipFace(
                  BuilderRectXY(m, p0[1], p1[1], p0[2], p1[2], p0[3])))
        s3 == built(BuilderRectXZ(m, p0[1], p1[1], p0[3], p1[3], p1[2]))
        s4 == built(BuilderFlipFace(
                  BuilderRectXZ(m, p0[1], p1[1], p0[3], p1[3], p0[2])))
        s5 == built(BuilderRectYZ(m, p0[2], p1[2], p0[3], p1[3], p1[1]))
        s6 == built(BuilderFlipFace(
                  BuilderRectYZ(m, p0[2], p1[2], p0[3], p1[3], p0[1])))
    IN  [kind |-> "Box3D", p0 |-> p0, p1 |-> p1,
         shapes |-> [kind |-> "ShapeList",
                     objects |-> <<s1, s2, s3, s4, s5, s6>>]]

\* ShapeBuilder::box3d comes after Box3D::new, which itself uses the builder
BuilderBox3d(self, p0, p1) ==
    IF ~IsSome(self.material) THEN Panic(self)
    ELSE [self EXCEPT
            !.shape = Some(Box3DNew(p0, p1, Unwrap(self.material))),
            !.material = None]

(***************************************************************************)
(* Shape::hit, by variant                                                  *)
(***************************************************************************)
RECURSIVE Hit(_, _, _, _)
RECURSIVE ShapeListSweep(_, _, _, _, _, _)

\* The loop of ShapeList::hit from child i on, with the loop's two locals
ShapeListSweep(objects, i, ray, t0, closest_so_far, hit_info) ==
    IF i > Len(objects) THEN hit_info
    ELSE LET got == Hit(objects[i], ray, t0, closest_so_far)
         IN  IF IsSome(got)
             THEN ShapeListSweep(objects, i + 1, ray, t0, Unwrap(got).t, got)
             ELSE ShapeListSweep(objects, i + 1, ray, t0, closest_so_far,
                                 hit_info)

ShapeListHit(self, ray, t0, t1) ==
    ShapeListSweep(self.objects, 1, ray, t0, t1, None)

Box3DHit(self, ray, t0, t1) == ShapeListHit(self.shapes, ray, t0, t1)

FlipFaceHit(self, ray, t0, t1) ==
    LET got == Hit(self.shape, ray, t0, t1)
    IN  IF IsSome(got)
        THEN Some([Unwrap(got) EXCEPT !.n = Neg3(Unwrap(got).n)])
        ELSE None

\* The child's hit handed on with its point left in the child's frame
TranslateHitLocalPoint(self, ray, t0, t1) ==
    LET moved_ray == RayNew(Sub3(ray.origin, self.offset), ray.direction)
        got == Hit(self.shape, moved_ray, t0, t1)
    IN  got

TranslateHit(self, ray, t0, t1) ==
    LET moved_ray == RayNew(Sub3(ray.origin, self.offset), ray.direction)
        got == Hit(self.shape, moved_ray, t0, t1)
    IN  IF IsSome(got)
        THEN Some([Unwrap(got) EXCEPT !.p = Add3(Unwrap(got).p, self.offset)])
        ELSE None

RotateHit(self, ray, t0, t1) ==
    LET revq == QuatConj(self.quat)
        rotated_ray == RayNew(QuatRotate(revq, ray.origin),
                              QuatRotate(revq, ray.direction))
        got == Hit(self.shape, rotated_ray, t0, t1)
    IN  IF IsSome(got)
        THEN Some([Unwrap(got) EXCEPT
                     !.p = QuatRotate(self.quat, Unwrap(got).p),
                     !.n = QuatRotate(self.quat, Unwrap(got).n)])
        ELSE None

Hit(shape, ray, t0, t1) ==
    CASE shape.kind = "Sphere" -> SphereHit(shape, ray, t0, t1)
      [] shape.kind = "Rect" -> RectHit(shape, ray, t0, t1)
      [] shape.kind = "Box3D" -> Box3DHit(shape, ray, t0, t1)
      [] shape.kind = "FlipFace" -> FlipFaceHit(shape, ray, t0, t1)
      [] shape.kind = "Translate" -> TranslateHit(shape, ray, t0, t1)
      [] shape.kind = "Rotate" -> RotateHit(shape, ray, t0, t1)
      [] shape.kind = "ShapeList" -> ShapeListHit(shape, ray, t0, t1)

(***************************************************************************)
(* Texture::value, Material::emitted and Material::scatter (main.rs).      *)
(* random_in_unit_sphere() is an input of scatter: rnd, a point the        *)
(* rejection loop of float3.rs accepts.                                    *)
(***************************************************************************)
RECURSIVE TextureValue(_, _, _, _)

ColorTextureValue(self, u, v, p) == self.color

\* The odd child where the product of sines is positive
CheckerTextureValueSwapped(self, u, v, p) ==
    LET sines == FMul(FMul(FMul(I(1), FSin(FMul(p[1], self.freq))),
                           FSin(FMul(p[2], self.freq))),
                      FSin(FMul(p[3], self.freq)))
    IN  IF FGt(sines, I(0)) THEN TextureValue(self.odd, u, v, p)
        ELSE TextureValue(self.even, u, v, p)

\* p.iter().fold(1.0, |acc, x| acc * (x * self.freq).sin())
CheckerTextureValue(self, u, v, p) ==
    LET sines == FMul(FMul(FMul(I(1), FSin(FMul(p[1], self.freq))),
                           FSin(FMul(p[2], self.freq))),
                      FSin(FMul(p[3], self.freq)))
    IN  IF FLt(sines, I(0)) THEN TextureValue(self.odd, u, v, p)
        ELSE TextureValue(self.even, u, v, p)

\* self.pixels[index]: a Vec indexed out of its bounds panics
VecIndex(vec, index) ==
    IF index >= 0 /\ index < Len(vec) THEN vec[index + 1] ELSE "panic"

\* The column left unclamped on the right
ImageTextureSampleUnclamped(self, u, v) ==
    LET tu == IF u < 0 THEN 0 ELSE u
        tv == IF v < 0 THEN 0
              ELSE IF v >= self.height THEN self.height - 1
              ELSE v
    IN  VecIndex(self.pixels, tu + self.width * tv)

\* ImageTexture::sample(u: i64, v: i64)
ImageTextureSample(self, u, v) ==
    LET tu == IF u < 0 THEN 0
              ELSE IF u >= self.width THEN self.width - 1
              ELSE u
        tv == IF v < 0 THEN 0
              ELSE IF v >= self.height THEN self.height - 1
              ELSE v
    IN  VecIndex(self.pixels, tu + self.width * tv)

ImageTextureValue(self, u, v, p) ==
    LET x == CastI64(FMul(u, I(self.width)))
        y == CastI64(FMul(FSub(I(1), v), I(self.height)))
    IN  ImageTextureSample(self, x, y)

\* Texture::value on a Box<dyn Texture>
TextureValue(texture, u, v, p) ==
    CASE texture.kind = "ColorTexture" -> ColorTextureValue(texture, u, v, p)
      [] texture.kind = "CheckerTexture" ->
            CheckerTextureValue(texture, u, v, p)
      [] texture.kind = "ImageTexture" -> ImageTextureValue(texture, u, v, p)

InUnitSphere(point) == FLt(LengthSquared(point), I(1))

ScatterInfoNew(ray, albedo) == [ray |-> ray, albedo |-> albedo]

LambertianScatter(self, ray, hit, rnd) ==
    LET target == Add3(Add3(hit.p, hit.n), rnd)
        albedo == TextureValue(self.albedo, hit.u, hit.v, hit.p)
    IN  Some(ScatterInfoNew(RayNew(hit.p, Sub3(target, hit.p)), albedo))

MetalScatter(self, ray, hit, rnd) ==
    LET reflected0 == Reflect(Normalize(ray.direction), hit.n)
        reflected == Add3(reflected0, Scale3(rnd, self.fuzz))
    IN  IF FGt(Dot(reflected, hit.n), I(0))
        THEN Some(ScatterInfoNew(RayNew(hit.p, reflected),
                                 TextureValue(self.albedo, hit.u, hit.v, hit.p)))
        ELSE None

DiffusedLightScatter(self, ray, hit) == None

\* f64::powi: n factors
RECURSIVE FPowi(_, _)
FPowi(a, n) == IF n = 0 THEN I(1) ELSE FMul(a, FPowi(a, n - 1))

\* Float3::refract(normal, ni_over_nt), Snell's law: None when the
\* discriminant 1 - ni_over_nt^2 (1 - cos^2) is not positive
Refract(self, normal, ni_over_nt) ==
    LET uv == Normalize(self)
        dt == Dot(uv, normal)
        d == FSub(I(1), FMul(FPowi(ni_over_nt, 2),
                             FSub(I(1), FPowi(dt, 2))))
    IN  IF FGt(d, I(0))
        THEN Some(Sub3(Scale3(Sub3(uv, Scale3(normal, dt)),
                              FNeg(ni_over_nt)),
                       Scale3(normal, FSqrt(d))))
        ELSE None

DielectricSchlick(cosine, ri) ==
    LET r0 == FPowi(FDiv(FSub(I(1), ri), FAdd(I(1), ri)), 2)
    IN  FAdd(r0, FMul(FSub(I(1), r0), FPowi(FSub(I(1), cosine), 5)))

\* (outward_normal, ni_over_nt, cosine), by the side the ray comes from
DielectricFrame(self, ray, hit) ==
    LET dot == Dot(ray.direction, hit.n)
    IN  IF FGt(dot, I(0))
        THEN [outward_normal |-> Neg3(hit.n), ni_over_nt |-> self.ri,
              cosine |-> FDiv(FMul(self.ri, dot), Length(ray.direction))]
        ELSE [outward_normal |-> hit.n, ni_over_nt |-> FDiv(I(1), self.ri),
              cosine |-> FDiv(FNeg(dot), Length(ray.direction))]

\* Total internal reflection absorbs the ray
DielectricScatterAbsorbing(self, ray, hit, rnd) ==
    LET reflected == Reflect(ray.direction, hit.n)
        frame == DielectricFrame(self, ray, hit)
        refracted == Refract(Neg3(ray.direction), frame.outward_normal,
                             frame.ni_over_nt)
    IN  IF ~IsSome(refracted) THEN None
        ELSE IF FGt(rnd, DielectricSchlick(frame.cosine, self.ri))
        THEN Some(ScatterInfoNew(RayNew(hit.p, Unwrap(refracted)), One3))
        ELSE Some(ScatterInfoNew(RayNew(hit.p, reflected), One3))

\* rnd is the draw Vec3::random_fill().x()
DielectricScatter(self, ray, hit, rnd) ==
    LET reflected == Reflect(ray.direction, hit.n)
        frame == DielectricFrame(self, ray, hit)
        refracted == Refract(Neg3(ray.direction), frame.outward_normal,
                             frame.ni_over_nt)
    IN  IF IsSome(refracted)
           /\ FGt(rnd, DielectricSchlick(frame.cosine, self.ri))
        THEN Some(ScatterInfoNew(RayNew(hit.p, Unwrap(refracted)), One3))
        ELSE Some(ScatterInfoNew(RayNew(hit.p, reflected), One3))

\* A light that emits nothing
DiffusedLightEmittedNothing(self, ray, hit) == Zero3

DiffusedLightEmitted(self, ray, hit) ==
    TextureValue(self.emit, hit.u, hit.v, hit.p)

\* A default emitted() of one instead of zero
MaterialEmittedWhite(m, ray, hit) ==
    IF m.kind = "DiffusedLight" THEN DiffusedLightEmitted(m, ray, hit)
    ELSE One3

\* The trait's default: Color::zero()
MaterialEmitted(m, ray, hit) ==
    IF m.kind = "DiffusedLight" THEN DiffusedLightEmitted(m, ray, hit)
    ELSE Zero3

MaterialScatter(m, ray, hit, rnd) ==
    CASE m.kind = "Lambertian" -> LambertianScatter(m, ray, hit, rnd)
      [] m.kind = "Metal" -> MetalScatter(m, ray, hit, rnd)
      [] m.kind = "DiffusedLight" -> DiffusedLightScatter(m, ray, hit)

(***************************************************************************)
(* The intersection machine: fill a ShapeList by push, then call hit once, *)
(* on the list or on one shape alone                                       *)
(***************************************************************************)
MaxObjects == 2

\* Stands for f64::MAX: finite, and above every t the shapes below produce
F64Max == 1000000

Grey == LambertianNew(ColorTextureNew(Fill(F(1, 2))))
Red == LambertianNew(ColorTextureNew(Float3New(F(16, 25), F(1, 20), F(1, 20))))
Lamp == DiffusedLightNew(ColorTextureNew(Fill(I(4))))

HalfTurn == [s |-> I(1), c |-> I(0)]         \* half angle 90 degrees
Slant == [s |-> F(3, 5), c |-> F(4, 5)]      \* half angle atan(3/4)

SphereA == SphereNew(V3(0, 0, 0), I(5), Grey)
SphereB == SphereNew(V3(0, 0, 3), I(5), Red)
RectA == RectNew(I(-4), I(4), I(-4), I(4), I(0), "XY", Lamp)
RectB == RectNew(I(-4), I(4), I(-4), I(4), I(-5), "XY", Grey)
RectC == RectNew(I(-4), I(4), I(-20), I(20), I(0), "XZ", Red)
RectD == RectNew(I(-4), I(4), I(-4), I(4), I(-5), "YZ", Grey)
RectE == RectNew(I(-4), I(4), I(-4), I(4), I(30), "XY", Red)
BoxA == Box3DNew(V3(-3, -3, -3), V3(3, 3, 3), Grey)

\* The children a ShapeList is filled with
Children == {SphereA, SphereB, RectA, RectB, RectC, RectE}

\* Every shape hit() is called on alone: each variant, decorators nested
Catalogue ==
    Children \cup
    {RectD, BoxA,
     FlipFaceNew(RectA), FlipFaceNew(SphereA), FlipFaceNew(FlipFaceNew(RectB)),
     TranslateNew(SphereA, V3(0, 0, 3)), TranslateNew(RectC, V3(0, 1, 0)),
     TranslateNew(BoxA, V3(1, 0, 0)),
     RotateNew(RectB, Yaxis, HalfTurn), RotateNew(SphereA, Yaxis, Slant),
     RotateNew(RectA, Zaxis, Slant), RotateNew(BoxA, Xaxis, HalfTurn),
     TranslateNew(RotateNew(FlipFaceNew(RectA), Yaxis, Slant), V3(0, 0, 1)),
     [kind |-> "ShapeList", objects |-> <<RectA, SphereA>>]}

HitRays ==
    {RayNew(V3(x, y, -10), V3(0, 0, 1)) :
        <<x, y>> \in {<<0, 0>>, <<3, 0>>, <<0, 4>>, <<3, 4>>, <<6, 0>>}}
    \cup {RayNew(V3(0, 0, 10), V3(0, 0, -1)),
          RayNew(V3(-10, 0, 0), V3(1, 0, 0)),
          RayNew(V3(0, 0, -10), V3(0, 0, 2)),
          RayNew(Float3New(I(0), F(-14, 5), F(-52, 5)), V3(0, 3, 4))}

\* (t0, t1): the integrator's (0.001, f64::MAX) and intervals whose ends
\* fall on intersections
HitIntervals ==
    {<<F(1, 1000), I(F64Max)>>, <<I(0), I(5)>>, <<I(5), I(15)>>,
     <<I(0), I(10)>>, <<I(10), I(20)>>}

HInit ==
    /\ hpc = "build"
    /\ world = ShapeListNew
    /\ hshape = ShapeListNew
    /\ hray = RayNew(Zero3, Zaxis)
    /\ ht0 = I(0)
    /\ ht1 = I(0)
    /\ hres = None

\* ShapeList::push
Push ==
    /\ hpc = "build"
    /\ Len(world.objects) < MaxObjects
    /\ \E object \in Children : world' = ShapeListPush(world, object)
    /\ UNCHANGED <<hpc, hshape, hray, ht0, ht1, hres>>
    /\ UNCHANGED <<bvars, tvars, rvars, qvars, xvars, dvars, gvars>>

\* hit() on the ShapeList
HitList ==
    /\ hpc = "build"
    /\ \E ray \in HitRays, iv \in HitIntervals :
        /\ hshape' = world
        /\ hray' = ray
        /\ ht0' = iv[1]
        /\ ht1' = iv[2]
        /\ hres' = Hit(world, ray, iv[1], iv[2])
    /\ hpc' = "hit"
    /\ UNCHANGED world
    /\ UNCHANGED <<bvars, tvars, rvars, qvars, xvars, dvars, gvars>>

\* hit() on one shape of the catalogue
HitOne ==
    /\ hpc = "build"
    /\ world.objects = <<>>
    /\ \E shape \in Catalogue, ray \in HitRays, iv \in HitIntervals :
        /\ hshape' = shape
        /\ hray' = ray
        /\ ht0' = iv[1]
        /\ ht1' = iv[2]
        /\ hres' = Hit(shape, ray, iv[1], iv[2])
    /\ hpc' = "hit"
    /\ UNCHANGED world
    /\ UNCHANGED <<bvars, tvars, rvars, qvars, xvars, dvars, gvars>>

HNext == Push \/ HitList \/ HitOne

(***************************************************************************)
(* The builder machine: one chain of ShapeBuilder calls, each stage called *)
(* on whatever the chain has built so far                                  *)
(***************************************************************************)
MaxStages == 5

ShapeStages == {"sphere", "rect_xy", "rect_xz", "rect_yz", "box3d"}

DecoratorStages == {"flip_face", "translate", "rotate"}

BInit ==
    /\ builder = BuilderNew
    /\ bout = None
    /\ blast = [stage |-> "new", pre |-> BuilderNew]
    /\ bsteps = 0
    /\ bshaped = FALSE
    /\ bchain = <<>>

\* A stage can be called while the chain is alive: no panic, not yet built
Alive == ~builder.panicked /\ bout = None /\ bsteps < MaxStages

\* The call of one stage, which leaves the builder as next
Stage(name, next) ==
    /\ Alive
    /\ builder' = next
    /\ blast' = [stage |-> name, pre |-> builder]
    /\ bsteps' = bsteps + 1
    /\ bshaped' = (bshaped \/ (name \in ShapeStages /\ ~next.panicked))
    /\ bchain' =
        IF next.panicked THEN bchain
        ELSE IF name \in ShapeStages
            THEN <<[stage |-> name, material |-> builder.material]>>
        ELSE IF name \in DecoratorStages
            THEN Append(bchain, [stage |-> name, material |-> None])
        ELSE bchain
    /\ UNCHANGED bout
    /\ UNCHANGED <<hvars, tvars, rvars, qvars, xvars, dvars, gvars>>

CallColorTexture ==
    \E color \in {Fill(F(1, 2)), Fill(I(4))} :
        Stage("color_texture", BuilderColorTexture(builder, color))

CallCheckerTexture ==
    Stage("checker_texture",
          BuilderCheckerTexture(builder, Fill(I(0)), Fill(I(1)), I(10)))

CallImageTexture ==
    \E path \in {"bricks.jpg", "missing.jpg"} :
        Stage("image_texture", BuilderImageTexture(builder, path))

CallDiffuseLight == Stage("diffuse_light", BuilderDiffuseLight(builder))

CallMaterial == Stage("material", BuilderMaterial(builder, Grey))

CallLambertian == Stage("lambertian", BuilderLambertian(builder))

CallMetal == Stage("metal", BuilderMetal(builder, F(2, 5)))

CallDielectric == Stage("dielectric", BuilderDielectric(builder, F(3, 2)))

CallSphere == Stage("sphere", BuilderSphere(builder, V3(0, 0, 0), I(5)))

CallRectXY ==
    Stage("rect_xy", BuilderRectXY(builder, I(-4), I(4), I(-4), I(4), I(0)))

CallRectXZ ==
    Stage("rect_xz", BuilderRectXZ(builder, I(-4), I(4), I(-4), I(4), I(0)))

CallRectYZ ==
    Stage("rect_yz", BuilderRectYZ(builder, I(-4), I(4), I(-4), I(4), I(0)))

CallBox3d ==
    Stage("box3d", BuilderBox3d(builder, V3(-3, -3, -3), V3(3, 3, 3)))

CallFlipFace == Stage("flip_face", BuilderFlipFace(builder))

CallTranslate == Stage("translate", BuilderTranslate(builder, V3(0, 0, 1)))

CallRotate == Stage("rotate", BuilderRotate(builder, Yaxis, HalfTurn))

\* build() consumes the builder
CallBuild ==
    /\ Alive
    /\ LET r == BuilderBuild(builder)
       IN  /\ builder' = [builder EXCEPT !.panicked = r.panicked]
           /\ bout' = r.shape
    /\ blast' = [stage |-> "build", pre |-> builder]
    /\ bsteps' = bsteps + 1
    /\ UNCHANGED <<bshaped, bchain>>
    /\ UNCHANGED <<hvars, tvars, rvars, qvars, xvars, dvars, gvars>>

BNext ==
    \/ CallColorTexture
    \/ CallCheckerTexture
    \/ CallImageTexture
    \/ CallDiffuseLight
    \/ CallMaterial
    \/ CallLambertian
    \/ CallMetal
    \/ CallDielectric
    \/ CallSphere
    \/ CallRectXY
    \/ CallRectXZ
    \/ CallRectYZ
    \/ CallBox3d
    \/ CallFlipFace
    \/ CallTranslate
    \/ CallRotate
    \/ CallBuild

(***************************************************************************)
(* The trace machine: one call of trace(ray, depth) on a scene, with the   *)
(* recursion kept as an explicit stack of waiting callers                  *)
(***************************************************************************)
MaxDepth == 3

SimpleSceneNew(w) == [kind |-> "SimpleScene", world |-> w]

CornelBoxSceneNew(w) == [kind |-> "CornelBoxScene", world |-> w]

SimpleSceneBackground(d) == Fill(F(1, 10))

CornelBoxSceneBackground(d) == Fill(I(0))

Background(scene, d) ==
    IF scene.kind = "SimpleScene" THEN SimpleSceneBackground(d)
    ELSE CornelBoxSceneBackground(d)

\* let scatter_info = if depth > 0 { hit.m.scatter(..) } else { None }
ScatterAttemptedAlways(depth) == TRUE

ScatterAttempted(depth) == depth > 0

ScatterInfoAt(depth, hit, ray, rnd) ==
    IF ScatterAttempted(depth) THEN MaterialScatter(hit.m, ray, hit, rnd)
    ELSE None

\* emitted + scatter.albedo * self.trace(scatter.ray, depth - 1)
ShadeWithoutAlbedo(emitted, albedo, traced) == Add3(emitted, traced)

Shade(emitted, albedo, traced) == Add3(emitted, Mul3(albedo, traced))

Mirror == MetalNew(ColorTextureNew(Fill(F(1, 2))), I(0))
Brushed == MetalNew(ColorTextureNew(Float3New(F(4, 5), F(3, 5), F(1, 5))),
                    F(1, 2))
Glow == DiffusedLightNew(ColorTextureNew(Fill(F(1, 10))))
Dark == DiffusedLightNew(ColorTextureNew(Zero3))

Floor(m) == RectNew(I(-4), I(4), I(-4), I(4), I(0), "XY", m)
Ceiling(m) ==
    FlipFaceNew(RectNew(I(-4), I(4), I(-4), I(4), I(10), "XY", m))

ListOf(objects) == [kind |-> "ShapeList", objects |-> objects]

SingleSphereWorlds ==
    {ListOf(<<SphereNew(V3(0, 0, 0), I(5), m)>>) :
        m \in {Grey, Lamp, Glow, Dark, Brushed}}

LightOnlyWorlds ==
    {ListOf(<<Floor(Lamp), Ceiling(Glow)>>), ListOf(<<Ceiling(Dark)>>)}

RoomWorlds ==
    {ListOf(<<Floor(Mirror), Ceiling(Mirror)>>),
     ListOf(<<Floor(Grey), Ceiling(Lamp)>>),
     ListOf(<<Floor(Red), Ceiling(Mirror)>>)}

Scenes ==
    {SimpleSceneNew(w) : w \in SingleSphereWorlds \cup LightOnlyWorlds
                                \cup RoomWorlds}
    \cup {CornelBoxSceneNew(w) : w \in SingleSphereWorlds
                                \cup LightOnlyWorlds \cup RoomWorlds}

PrimaryRays ==
    {RayNew(V3(0, 0, -10), V3(0, 0, 1)),
     RayNew(V3(6, 0, -10), V3(0, 0, 1)),
     RayNew(V3(0, 0, 6), V3(0, 0, -1)),
     RayNew(V3(0, 0, 6), V3(0, 0, 1)),
     RayNew(Float3New(I(0), F(-14, 5), F(-52, 5)), V3(0, 3, 4))}

\* Points random_in_unit_sphere() can return
RandomDraws ==
    {point \in {Zero3, Float3New(F(3, 4), I(0), I(0)),
                Float3New(I(0), I(0), F(-1, 2)), V3(1, 1, -1)} :
        InUnitSphere(point)}

TInit ==
    /\ tscene = CornelBoxSceneNew(ShapeListNew)
    /\ targs = [ray |-> RayNew(Zero3, Zaxis), depth |-> 0]
    /\ tpc = "idle"
    /\ tray = RayNew(Zero3, Zaxis)
    /\ tdepth = 0
    /\ tstack = <<>>
    /\ tret = Zero3
    /\ ttests = 0
    /\ thit = None
    /\ tscatter = [emitted |-> Zero3, scatter_info |-> None]
    /\ tlog = <<>>

\* The outermost call: trace(ray, depth) on a scene
TraceStart ==
    /\ tpc = "idle"
    /\ \E scene \in Scenes, ray \in PrimaryRays, depth \in 0..MaxDepth :
        /\ tscene' = scene
        /\ targs' = [ray |-> ray, depth |-> depth]
        /\ tray' = ray
        /\ tdepth' = depth
    /\ tpc' = "call"
    /\ UNCHANGED <<tstack, tret, ttests, thit, tscatter, tlog>>
    /\ UNCHANGED <<hvars, bvars, rvars, qvars, xvars, dvars, gvars>>

\* let hit_info = self.world.hit(&ray, 0.001, f64::MAX)
HitInfoOf(scene, ray) == Hit(scene.world, ray, F(1, 1000), I(F64Max))

TraceIntersect ==
    /\ tpc = "call"
    /\ thit' = HitInfoOf(tscene, tray)
    /\ ttests' = ttests + 1
    /\ tpc' = "tested"
    /\ UNCHANGED <<tscene, targs, tray, tdepth, tstack, tret, tscatter, tlog>>
    /\ UNCHANGED <<hvars, bvars, rvars, qvars, xvars, dvars, gvars>>

\* What the running call did, for the record of the run
Logged(attempted, shade) ==
    Append(tlog, [ray |-> tray, depth |-> tdepth, hit_info |-> thit,
                  attempted |-> attempted, shade |-> shade])

\* The else branch: self.background(ray.direction)
TraceMiss ==
    /\ tpc = "tested"
    /\ ~IsSome(thit)
    /\ tret' = Background(tscene, tray.direction)
    /\ tpc' = "return"
    /\ tlog' = Logged(FALSE, tscatter)
    /\ UNCHANGED <<tscene, targs, tray, tdepth, tstack, ttests, thit, tscatter>>
    /\ UNCHANGED <<hvars, bvars, rvars, qvars, xvars, dvars, gvars>>

\* if let Some(hit): emitted, then scatter_info
TraceShade ==
    /\ tpc = "tested"
    /\ IsSome(thit)
    /\ \E rnd \in RandomDraws :
        /\ tscatter' = [emitted |-> MaterialEmitted(Unwrap(thit).m, tray,
                                                    Unwrap(thit)),
                        scatter_info |-> ScatterInfoAt(tdepth, Unwrap(thit),
                                                       tray, rnd)]
        /\ tlog' = Logged(ScatterAttempted(tdepth), tscatter')
    /\ tpc' = "shaded"
    /\ UNCHANGED <<tscene, targs, tray, tdepth, tstack, tret, ttests, thit>>
    /\ UNCHANGED <<hvars, bvars, rvars, qvars, xvars, dvars, gvars>>

\* No scatter_info: the call returns emitted
TraceEmit ==
    /\ tpc = "shaded"
    /\ ~IsSome(tscatter.scatter_info)
    /\ tret' = tscatter.emitted
    /\ tpc' = "return"
    /\ UNCHANGED <<tscene, targs, tray, tdepth, tstack, ttests, thit, tscatter,
                   tlog>>
    /\ UNCHANGED <<hvars, bvars, rvars, qvars, xvars, dvars, gvars>>

\* Some(scatter): the call recurses with depth - 1 (a usize) and waits for
\* the result
TraceScatter ==
    /\ tpc = "shaded"
    /\ IsSome(tscatter.scatter_info)
    /\ tstack' = Append(tstack,
                        [emitted |-> tscatter.emitted,
                         albedo |-> Unwrap(tscatter.scatter_info).albedo])
    /\ tray' = Unwrap(tscatter.scatter_info).ray
    /\ tdepth' = IF tdepth > 0 THEN tdepth - 1 ELSE tdepth
    /\ tpc' = IF tdepth > 0 THEN "call" ELSE "overflow"
    /\ UNCHANGED <<tscene, targs, tret, ttests, thit, tscatter, tlog>>
    /\ UNCHANGED <<hvars, bvars, rvars, qvars, xvars, dvars, gvars>>

\* The result of the recursive call handed up without its attenuation
TraceReturnUnattenuated ==
    /\ tpc = "return"
    /\ tstack # <<>>
    /\ LET frame == tstack[Len(tstack)]
       IN  tret' = Add3(frame.emitted, tret)
    /\ tstack' = SubSeq(tstack, 1, Len(tstack) - 1)
    /\ UNCHANGED <<tscene, targs, tpc, tray, tdepth, ttests, thit, tscatter,
                   tlog>>
    /\ UNCHANGED <<hvars, bvars, rvars, qvars, xvars, dvars, gvars>>

\* The recursive call has returned: emitted + albedo * (its result)
TraceReturn ==
    /\ tpc = "return"
    /\ tstack # <<>>
    /\ LET frame == tstack[Len(tstack)]
       IN  tret' = Shade(frame.emitted, frame.albedo, tret)
    /\ tstack' = SubSeq(tstack, 1, Len(tstack) - 1)
    /\ UNCHANGED <<tscene, targs, tpc, tray, tdepth, ttests, thit, tscatter,
                   tlog>>
    /\ UNCHANGED <<hvars, bvars, rvars, qvars, xvars, dvars, gvars>>

\* The outermost call has returned
TraceDone ==
    /\ tpc = "return"
    /\ tstack = <<>>
    /\ tpc' = "done"
    /\ UNCHANGED <<tscene, targs, tray, tdepth, tstack, tret, ttests, thit,
                   tscatter, tlog>>
    /\ UNCHANGED <<hvars, bvars, rvars, qvars, xvars, dvars, gvars>>

TNext ==
    \/ TraceStart
    \/ TraceIntersect
    \/ TraceMiss
    \/ TraceShade
    \/ TraceEmit
    \/ TraceScatter
    \/ TraceReturn
    \/ TraceDone

(***************************************************************************)
(* The render machine: runs of render_aa_with_depth, one after another, on *)
(* the same directory.  A file holds "latest" (the most recent render that *)
(* was saved), "older" (an earlier one), "partial" (what a save that did   *)
(* not finish left behind) or is "absent".                                 *)
(***************************************************************************)
ImgW == 2
ImgH == 2
NumWorkers == 2
Spp == 2
MAX_RAY_BOUNCE_DEPTH == 50

Pixels == (0..(ImgW - 1)) \X (0..(ImgH - 1))

Blank == [rgb |-> <<0, 0, 0>>]

\* Float3::random() per sample of each pixel: two tables of draws
DrawTables ==
    {[px \in Pixels |->
        [i \in 1..Spp |->
            [rx |-> F((px[1] + px[2] + i + k) % 2, 2),
             ry |-> F((px[1] + i * k) % 2, 4)]]] : k \in 1..2}

\* camera.ray(u, v) then scene.trace(ray, MAX_RAY_BOUNCE_DEPTH): a colour
\* that the sample's u and v determine, the scene and camera being fixed
SampleColor(u, v) == [trace |-> <<u, v>>, depth |-> MAX_RAY_BOUNCE_DEPTH]

\* The closure of for_each on pixel (x, y): the fold over the samples,
\* /= spp, gamma, to_rgb
PixelRgb(x, y, draws) ==
    [rgb |-> [i \in 1..Spp |->
        LET u == FDiv(FAdd(I(x), draws[i].rx), I(ImgW - 1))
            v == FDiv(FAdd(I(ImgH - y - 1), draws[i].ry), I(ImgH - 1))
        IN  SampleColor(u, v)],
     spp |-> Spp]

\* How many worker threads are running the closure, over all pixels
RECURSIVE Busy(_, _)
Busy(held, pxs) ==
    IF pxs = {} THEN 0
    ELSE LET px == CHOOSE q \in pxs : TRUE
         IN  held[px] + Busy(held, pxs \ {px})

NoneHeld == [px \in Pixels |-> 0]

RInit ==
    /\ rpc = "idle"
    /\ output = "absent"
    /\ backup = "absent"
    /\ succeeded = FALSE
    /\ rdraws = [px \in Pixels |-> <<>>]
    /\ img = [px \in Pixels |-> Blank]
    /\ pending = {}
    /\ workers = NoneHeld
    /\ writes = [px \in Pixels |-> 0]

\* backup(), then RgbImage::new(w, h) and the collect() of its pixels
RunBackup ==
    /\ rpc = "idle"
    /\ IF output # "absent"
       THEN backup' = output /\ output' = "absent"
       ELSE UNCHANGED <<output, backup>>
    /\ rdraws' \in DrawTables
    /\ img' = [px \in Pixels |-> Blank]
    /\ pending' = Pixels
    /\ workers' = NoneHeld
    /\ writes' = [px \in Pixels |-> 0]
    /\ rpc' = "tracing"
    /\ UNCHANGED succeeded
    /\ UNCHANGED <<hvars, bvars, tvars, qvars, xvars, dvars, gvars>>

\* A hand-out that leaves the pixel available to the other workers
WorkerTakeShared(px) ==
    /\ rpc = "tracing"
    /\ Busy(workers, Pixels) < NumWorkers
    /\ px \in pending
    /\ workers' = [workers EXCEPT ![px] = @ + 1]
    /\ UNCHANGED <<rpc, output, backup, succeeded, rdraws, img, pending,
                   writes>>
    /\ UNCHANGED <<hvars, bvars, tvars, qvars, xvars, dvars, gvars>>

\* par_iter_mut hands an idle worker thread the item (x, y, &mut pixel),
\* and the thread starts the closure on it
WorkerTake(px) ==
    /\ rpc = "tracing"
    /\ Busy(workers, Pixels) < NumWorkers
    /\ px \in pending
    /\ pending' = pending \ {px}
    /\ workers' = [workers EXCEPT ![px] = @ + 1]
    /\ UNCHANGED <<rpc, output, backup, succeeded, rdraws, img, writes>>
    /\ UNCHANGED <<hvars, bvars, tvars, qvars, xvars, dvars, gvars>>

\* The closure ends: pixel[0] = rgb[0]; pixel[1] = rgb[1]; pixel[2] = rgb[2]
WorkerWrite(px) ==
    /\ rpc = "tracing"
    /\ workers[px] > 0
    /\ img' = [img EXCEPT ![px] = PixelRgb(px[1], px[2], rdraws[px])]
    /\ writes' = [writes EXCEPT ![px] = @ + 1]
    /\ workers' = [workers EXCEPT ![px] = @ - 1]
    /\ UNCHANGED <<rpc, output, backup, succeeded, rdraws, pending>>
    /\ UNCHANGED <<hvars, bvars, tvars, qvars, xvars, dvars, gvars>>

\* for_each returns once every item has been processed
Join ==
    /\ rpc = "tracing"
    /\ pending = {}
    /\ workers = NoneHeld
    /\ rpc' = "joined"
    /\ UNCHANGED <<output, backup, succeeded, rdraws, img, pending, workers,
                   writes>>
    /\ UNCHANGED <<hvars, bvars, tvars, qvars, xvars, dvars, gvars>>

\* The process dies while tracing (a panic in trace, a kill): its memory is
\* gone, the files stay
AbortRun ==
    /\ rpc = "tracing"
    /\ rpc' = "idle"
    /\ img' = [px \in Pixels |-> Blank]
    /\ pending' = {}
    /\ workers' = NoneHeld
    /\ writes' = [px \in Pixels |-> 0]
    /\ UNCHANGED <<output, backup, succeeded, rdraws>>
    /\ UNCHANGED <<hvars, bvars, tvars, qvars, xvars, dvars, gvars>>

\* img.save(OUTPUT_FILENAME) returns Ok: the file holds this render
Save ==
    /\ rpc = "joined"
    /\ output' = "latest"
    /\ backup' = IF backup = "latest" THEN "older" ELSE backup
    /\ succeeded' = TRUE
    /\ rpc' = "saved"
    /\ UNCHANGED <<rdraws, img, pending, workers, writes>>
    /\ UNCHANGED <<hvars, bvars, tvars, qvars, xvars, dvars, gvars>>

\* img.save(OUTPUT_FILENAME) does not finish (Err and the unwrap panics, or
\* the process is killed): the file was not created, or holds part of the
\* encoding
SaveFails ==
    /\ rpc = "joined"
    /\ output' \in {output, "partial"}
    /\ rpc' = "idle"
    /\ img' = [px \in Pixels |-> Blank]
    /\ pending' = {}
    /\ workers' = NoneHeld
    /\ writes' = [px \in Pixels |-> 0]
    /\ UNCHANGED <<backup, succeeded, rdraws>>
    /\ UNCHANGED <<hvars, bvars, tvars, qvars, xvars, dvars, gvars>>

\* draw_in_window(BACKUP_FILENAME, img): shows the image; whether it
\* returns Ok or the unwrap panics, the run is over and the files stay
DrawInWindow ==
    /\ rpc = "saved"
    /\ rpc' = "idle"
    /\ img' = [px \in Pixels |-> Blank]
    /\ pending' = {}
    /\ workers' = NoneHeld
    /\ writes' = [px \in Pixels |-> 0]
    /\ UNCHANGED <<output, backup, succeeded, rdraws>>
    /\ UNCHANGED <<hvars, bvars, tvars, qvars, xvars, dvars, gvars>>

RNext ==
    \/ RunBackup
    \/ \E px \in Pixels : WorkerTake(px)
    \/ \E px \in Pixels : WorkerWrite(px)
    \/ Join
    \/ AbortRun
    \/ Save
    \/ SaveFails
    \/ DrawInWindow

(***************************************************************************)
(* The quaternion machine: build a rotation, rotate a point, rotate back   *)
(***************************************************************************)
MaxDen == 5
MaxCoord == 1

\* Unit vectors with rational components a/d, b/d, c/d, d <= MaxDen
UnitAxes ==
    {<<F(t[1], t[4]), F(t[2], t[4]), F(t[3], t[4])>> : t \in
        {u \in (-MaxDen..MaxDen) \X (-MaxDen..MaxDen) \X (-MaxDen..MaxDen)
                 \X (1..MaxDen) :
            u[1] * u[1] + u[2] * u[2] + u[3] * u[3] = u[4] * u[4]}}

\* Angles, each as the sine and cosine of its half: s = a/d, c = b/d
Angles ==
    {[s |-> F(t[1], t[3]), c |-> F(t[2], t[3])] : t \in
        {u \in (-MaxDen..MaxDen) \X (-MaxDen..MaxDen) \X (1..MaxDen) :
            u[1] * u[1] + u[2] * u[2] = u[3] * u[3]}}

Points ==
    {V3(x, y, z) : x \in -MaxCoord..MaxCoord, y \in -MaxCoord..MaxCoord,
                   z \in -MaxCoord..MaxCoord}

QInit ==
    /\ qpc = "new"
    /\ quat = QuatUnit
    /\ qp = Zero3
    /\ qr = Zero3
    /\ qb = Zero3

\* Quat::from_rot(v, rad)
FromRot ==
    /\ qpc = "new"
    /\ \E v \in UnitAxes, rad \in Angles : quat' = QuatFromRot(v, rad)
    /\ qpc' = "built"
    /\ UNCHANGED <<qp, qr, qb>>
    /\ UNCHANGED <<hvars, bvars, tvars, rvars, xvars, dvars, gvars>>

\* r = q.rotate(p)
Rotate ==
    /\ qpc = "built"
    /\ \E p \in Points :
        /\ qp' = p
        /\ qr' = QuatRotate(quat, p)
    /\ qpc' = "rotated"
    /\ UNCHANGED <<quat, qb>>
    /\ UNCHANGED <<hvars, bvars, tvars, rvars, xvars, dvars, gvars>>

\* b = q.conj().rotate(r)
ConjRotate ==
    /\ qpc = "rotated"
    /\ qb' = QuatRotate(QuatConj(quat), qr)
    /\ qpc' = "back"
    /\ UNCHANGED <<quat, qp, qr>>
    /\ UNCHANGED <<hvars, bvars, tvars, rvars, xvars, dvars, gvars>>

QNext == FromRot \/ Rotate \/ ConjRotate

(***************************************************************************)
(* The texture machine: value(u, v, p) called once on a texture            *)
(***************************************************************************)
ImageTextures ==
    {ImageTextureNew(path) :
        path \in {"bricks.jpg", "earth.jpg", "strip.png", "dot.png"}}

White == ColorTextureNew(One3)
Black == ColorTextureNew(Zero3)

CheckerTextures ==
    {CheckerTextureNew(White, Black, I(1)),
     CheckerTextureNew(Black, ImageTextureNew("earth.jpg"), I(10)),
     CheckerTextureNew(CheckerTextureNew(White, Black, I(1)), Black,
                       F(1, 2))}

\* (u, v): inside [0, 1], on its ends, outside it, and not finite
TexCoords ==
    {NInf, F(-3, 2), F(-1, 1000), I(0), F(1, 3), F(1, 2), F(999, 1000), I(1),
     F(5, 2), PInf, NaN}

\* Coordinates of hit points, on both sides of 0 and of the multiples of
\* pi, pi / 10 and 2 pi that lie near them
CheckerCoords ==
    {I(-7), I(-4), I(-1), F(-1, 5), I(0), F(1, 5), F(2, 5), I(1), I(3), I(4),
     I(7)}

XInit ==
    /\ xpc = "new"
    /\ xtex = White
    /\ xu = I(0)
    /\ xv = I(0)
    /\ xp = Zero3
    /\ xval = Zero3

\* value(u, v, p) on an ImageTexture
ValueOfImage ==
    /\ xpc = "new"
    /\ \E texture \in ImageTextures, u \in TexCoords, v \in TexCoords :
        /\ xtex' = texture
        /\ xu' = u
        /\ xv' = v
        /\ xp' = Zero3
        /\ xval' = TextureValue(texture, u, v, Zero3)
    /\ xpc' = "value"
    /\ UNCHANGED <<hvars, bvars, tvars, rvars, qvars, dvars, gvars>>

\* value(u, v, p) on a CheckerTexture
ValueOfChecker ==
    /\ xpc = "new"
    /\ \E texture \in CheckerTextures, u \in {F(1, 3), I(1)},
          x \in CheckerCoords, y \in CheckerCoords, z \in {I(-1), I(0), I(1)} :
        /\ xtex' = texture
        /\ xu' = u
        /\ xv' = F(1, 2)
        /\ xp' = Float3New(x, y, z)
        /\ xval' = TextureValue(texture, u, F(1, 2), Float3New(x, y, z))
    /\ xpc' = "value"
    /\ UNCHANGED <<hvars, bvars, tvars, rvars, qvars, dvars, gvars>>

XNext == ValueOfImage \/ ValueOfChecker

(***************************************************************************)
(* The dielectric machine: scatter called once on a Dielectric             *)
(***************************************************************************)
\* A refractive index, an incident direction and the normal of the hit:
\* glass from both sides, at angles where Snell's law has a rational
\* answer or none, the index-matched medium, and the zero direction
DielectricCases ==
    {c \in {I(1), F(4, 3), F(3, 4)}
            \X {V3(0, 0, -1), V3(0, 0, -2), V3(0, 4, -3), V3(0, 3, -4), Zero3}
            \X {Zaxis, Neg3(Zaxis)} :
        /\ ~(c[1] = F(4, 3) /\ c[2] = V3(0, 3, -4) /\ c[3] = Zaxis)
        /\ ~(c[1] = F(3, 4) /\ c[2] = V3(0, 3, -4) /\ c[3] = Neg3(Zaxis))}

\* Vec3::random_fill().x(): uniform in [0, 1)
UnitDraws == {I(0), F(1, 100), F(1, 2), F(99, 100)}

DInit ==
    /\ dpc = "new"
    /\ dmat = DielectricNew(I(1))
    /\ dray = RayNew(Zero3, Zaxis)
    /\ dhit = None
    /\ drnd = I(0)
    /\ dout = None

\* scatter(ray, hit) on a Dielectric
Scatter ==
    /\ dpc = "new"
    /\ \E c \in DielectricCases, rnd \in UnitDraws,
          p \in {Zero3, V3(1, 2, 0)} :
        LET self == DielectricNew(c[1])
            ray == RayNew(Sub3(p, c[2]), c[2])
            hit == HitInfoNew(I(1), p, c[3], self, I(0), I(0))
        IN  /\ dmat' = self
            /\ dray' = ray
            /\ dhit' = hit
            /\ drnd' = rnd
            /\ dout' = DielectricScatter(self, ray, hit, rnd)
    /\ dpc' = "scattered"
    /\ UNCHANGED <<hvars, bvars, tvars, rvars, qvars, xvars, gvars>>

DNext == Scatter

(***************************************************************************)
(* The pixel machine: the closure render_aa_with_depth runs on one pixel,  *)
(* from the colours scene.trace returned for its samples to its bytes      *)
(***************************************************************************)
\* 2.2
GAMMA_FACTOR == F(11, 5)

\* The integer whose q-th power is n; there must be one
IRoot(n, q) == CHOOSE k \in 0..7 : k ^ q = n

\* f64::powf(a, e) for an exponent e > 0 that is no integer, exact: the
\* model only feeds it e.d-th powers of rationals.  A negative base gives
\* NaN, an infinite one +inf.
FPowf(a, e) ==
    IF IsNaN(a) THEN NaN
    ELSE IF a.d = 0 THEN PInf
    ELSE IF a.n < 0 THEN NaN
    ELSE F(IRoot(a.n, e.d) ^ e.n, IRoot(a.d, e.d) ^ e.n)

\* Float3::gamma(factor)
Float3Gamma(self, factor) ==
    LET recip == FDiv(I(1), factor)
    IN  [i \in 1..3 |-> FPowf(self[i], recip)]

\* Float3::r, g, b: (255.99 * c.min(1.0).max(0.0)) as u8
ChannelU8(c) == CastU8(FMul(F(25599, 100), FMax(FMin(c, I(1)), I(0))))

\* Float3::to_rgb
Float3ToRgb(self) == [i \in 1..3 |-> ChannelU8(self[i])]

\* Channel values whose gamma encoding is rational, a negative one and
\* the two an overflow or 0 * inf leaves in a traced colour
ChannelMeans ==
    {I(0), F(1, 2048), I(1), I(2048), F(177147, 2048), I(-1), PInf, NaN}

\* The colours of the samples of a pixel, by their mean m: all equal to m
\* (k = 0), or the k-th alone not black
SamplesOf(m, k) ==
    [i \in 1..Spp |->
        IF k = 0 THEN m
        ELSE IF i = k THEN Scale3(m, I(Spp)) ELSE Zero3]

GInit ==
    /\ gpc = "new"
    /\ gsamples = <<>>
    /\ gacc = Zero3
    /\ gi = 0
    /\ grgb = <<0, 0, 0>>

\* The closure is entered: the fold starts from Color::zero()
PixelBegin ==
    /\ gpc = "new"
    /\ \E r \in ChannelMeans, g \in ChannelMeans, b \in ChannelMeans,
          k \in 0..Spp :
        gsamples' = SamplesOf(Float3New(r, g, b), k)
    /\ gacc' = Zero3
    /\ gi' = 0
    /\ gpc' = "fold"
    /\ UNCHANGED grgb
    /\ UNCHANGED <<hvars, bvars, tvars, rvars, qvars, xvars, dvars>>

\* acc + scene.trace(ray, MAX_RAY_BOUNCE_DEPTH), once per sample
PixelFold ==
    /\ gpc = "fold"
    /\ gi < Spp
    /\ gacc' = Add3(gacc, gsamples[gi + 1])
    /\ gi' = gi + 1
    /\ UNCHANGED <<gpc, gsamples, grgb>>
    /\ UNCHANGED <<hvars, bvars, tvars, rvars, qvars, xvars, dvars>>

\* pixel_color /= scene.spp() as f64
PixelDivide ==
    /\ gpc = "fold"
    /\ gi = Spp
    /\ gacc' = Div3(gacc, I(Spp))
    /\ gpc' = "mean"
    /\ UNCHANGED <<gsamples, gi, grgb>>
    /\ UNCHANGED <<hvars, bvars, tvars, rvars, qvars, xvars, dvars>>

\* The bytes taken from the mean with no gamma encoding
PixelEncodeLinear ==
    /\ gpc = "mean"
    /\ grgb' = Float3ToRgb(gacc)
    /\ gpc' = "written"
    /\ UNCHANGED <<gsamples, gacc, gi>>
    /\ UNCHANGED <<hvars, bvars, tvars, rvars, qvars, xvars, dvars>>

\* let rgb = pixel_color.gamma(GAMMA_FACTOR).to_rgb(); pixel[..] = rgb[..]
PixelEncode ==
    /\ gpc = "mean"
    /\ grgb' = Float3ToRgb(Float3Gamma(gacc, GAMMA_FACTOR))
    /\ gpc' = "written"
    /\ UNCHANGED <<gsamples, gacc, gi>>
    /\ UNCHANGED <<hvars, bvars, tvars, rvars, qvars, xvars, dvars>>

GNext == PixelBegin \/ PixelFold \/ PixelDivide \/ PixelEncode

Init == HInit /\ BInit /\ TInit /\ RInit /\ QInit /\ XInit /\ DInit /\ GInit

SpecHit == Init /\ [][HNext]_vars

SpecBuilder == Init /\ [][BNext]_vars

SpecTrace == Init /\ [][TNext]_vars

SpecRender == Init /\ [][RNext]_vars

SpecQuat == Init /\ [][QNext]_vars

SpecTexture == Init /\ [][XNext]_vars

SpecDielectric == Init /\ [][DNext]_vars

SpecPixel == Init /\ [][GNext]_vars

(***************************************************************************)
(* Claims about the intersection machine                                   *)
(***************************************************************************)
\* What each child of the queried ShapeList returns when hit() is called on
\* it alone with the query's ray and interval
PerChildHits ==
    {Unwrap(Hit(hshape.objects[i], hray, ht0, ht1)) :
        i \in {j \in 1..Len(hshape.objects) :
                  IsSome(Hit(hshape.objects[j], hray, ht0, ht1))}}

ListQueried == hpc = "hit" /\ hshape.kind = "ShapeList"

\* C1: ShapeList::hit returns a hit if and only if at least one child
\* reports a hit when queried alone on (t0, t1), and the t of the returned
\* hit equals the minimum t over those per-child hits.
C1_NearestOfChildren ==
    ListQueried =>
        /\ IsSome(hres) <=> PerChildHits # {}
        /\ IsSome(hres) =>
            /\ \E h \in PerChildHits : FEq(Unwrap(hres).t, h.t)
            /\ \A h \in PerChildHits : FLe(Unwrap(hres).t, h.t)

\* C1 holds of every query in which no child returns a NaN parameter.
C1_NearestUnlessNaN ==
    (ListQueried /\ \A h \in PerChildHits : ~IsNaN(h.t)) =>
        /\ IsSome(hres) <=> PerChildHits # {}
        /\ IsSome(hres) =>
            /\ \E h \in PerChildHits : FEq(Unwrap(hres).t, h.t)
            /\ \A h \in PerChildHits : FLe(Unwrap(hres).t, h.t)

\* C2: whenever hit(ray, t_min, t_max) returns a HitInfo, on any Shape
\* variant, its t satisfies t_min < t < t_max strictly.
C2_StrictlyInside ==
    (hpc = "hit" /\ IsSome(hres)) =>
        (FLt(ht0, Unwrap(hres).t) /\ FLt(Unwrap(hres).t, ht1))

\* C2 without the rectangles: a Sphere, alone or decorated, keeps t strictly
\* inside the interval.
RECURSIVE HasRect(_)
HasRect(shape) ==
    CASE shape.kind = "Rect" -> TRUE
      [] shape.kind = "Box3D" -> TRUE
      [] shape.kind = "Sphere" -> FALSE
      [] shape.kind = "ShapeList" ->
            \E i \in 1..Len(shape.objects) : HasRect(shape.objects[i])
      [] OTHER -> HasRect(shape.shape)

C2_StrictWithoutRect ==
    (hpc = "hit" /\ IsSome(hres) /\ ~HasRect(hshape)) =>
        (FLt(ht0, Unwrap(hres).t) /\ FLt(Unwrap(hres).t, ht1))

\* C11: every HitInfo returned by any Shape::hit carries a normal of unit
\* length, for every shape variant and every nesting of the FlipFace,
\* Translate and Rotate decorators around Sphere, Rect and Box3D.
C11_UnitNormal ==
    (hpc = "hit" /\ IsSome(hres)) =>
        FEq(LengthSquared(Unwrap(hres).n), I(1))

\* C11 without Rotate: every other variant and decorator keeps the normal
\* at unit length.
RECURSIVE HasRotate(_)
HasRotate(shape) ==
    CASE shape.kind = "Rotate" -> TRUE
      [] shape.kind \in {"Sphere", "Rect", "Box3D"} -> FALSE
      [] shape.kind = "ShapeList" ->
            \E i \in 1..Len(shape.objects) : HasRotate(shape.objects[i])
      [] OTHER -> HasRotate(shape.shape)

C11_UnitWithoutRotate ==
    (hpc = "hit" /\ IsSome(hres) /\ ~HasRotate(hshape)) =>
        FEq(LengthSquared(Unwrap(hres).n), I(1))

\* The query is on a sphere centred at the origin, of positive radius, with
\* the ray starting outside it
OriginSphereFromOutside ==
    /\ hpc = "hit"
    /\ hshape.kind = "Sphere"
    /\ hshape.center = Zero3
    /\ FGt(hshape.radius, I(0))
    /\ FGt(LengthSquared(hray.origin), FMul(hshape.radius, hshape.radius))

\* The parameters at which the ray's line lies on the sphere, among the
\* tenths between -5 and 30
Crossings ==
    {t \in {F(n, 10) : n \in -50..300} :
        FEq(LengthSquared(Sub3(RayAt(hray, t), hshape.center)),
            FMul(hshape.radius, hshape.radius))}

\* (d . oc)^2 - |d|^2 (|oc|^2 - r^2): a quarter of the discriminant
QuarterDiscriminant ==
    LET oc == Sub3(hray.origin, hshape.center)
    IN  FSub(FMul(Dot(hray.direction, oc), Dot(hray.direction, oc)),
             FMul(LengthSquared(hray.direction),
                  FSub(LengthSquared(oc),
                       FMul(hshape.radius, hshape.radius))))

InQueryInterval(t) == FLt(ht0, t) /\ FLt(t, ht1)

\* C15: for a sphere centred at the origin with radius r > 0 and a ray from
\* outside whose line crosses it at ta < tb, Sphere::hit returns the hit at
\* ta when ta lies in the query interval, otherwise the hit at tb when tb
\* does, otherwise none; none when the discriminant is <= 0; the returned
\* normal has unit length and dot(normal, hit point - centre) > 0.
C15_RootsAscending ==
    OriginSphereFromOutside =>
        /\ FLe(QuarterDiscriminant, I(0)) => hres = None
        /\ Cardinality(Crossings) = 2 =>
            LET ta == CHOOSE t \in Crossings : \A o \in Crossings : FLe(t, o)
                tb == CHOOSE t \in Crossings : \A o \in Crossings : FLe(o, t)
            IN  IF InQueryInterval(ta)
                THEN IsSome(hres) /\ Unwrap(hres).t = ta
                     /\ Unwrap(hres).p = RayAt(hray, ta)
                ELSE IF InQueryInterval(tb)
                THEN IsSome(hres) /\ Unwrap(hres).t = tb
                     /\ Unwrap(hres).p = RayAt(hray, tb)
                ELSE hres = None
        /\ IsSome(hres) =>
            /\ FEq(LengthSquared(Unwrap(hres).n), I(1))
            /\ FGt(Dot(Unwrap(hres).n,
                       Sub3(Unwrap(hres).p, hshape.center)), I(0))

\* The near crossing lies before the interval, the far one inside it, and
\* the far one is returned
C15_WitnessFarRoot ==
    /\ OriginSphereFromOutside
    /\ Cardinality(Crossings) = 2
    /\ \E t \in Crossings : ~InQueryInterval(t)
    /\ IsSome(hres)
    /\ \A t \in Crossings : FLe(t, Unwrap(hres).t)

Decorated == hpc = "hit" /\ hshape.kind \in {"FlipFace", "Translate", "Rotate"}

\* The ray a decorator hands to its child
ChildRay ==
    CASE hshape.kind = "FlipFace" -> hray
      [] hshape.kind = "Translate" ->
            RayNew(Sub3(hray.origin, hshape.offset), hray.direction)
      [] hshape.kind = "Rotate" ->
            RayNew(QuatRotate(QuatConj(hshape.quat), hray.origin),
                   QuatRotate(QuatConj(hshape.quat), hray.direction))

ChildHit == Hit(hshape.shape, ChildRay, ht0, ht1)

\* C17: each decorator returns a hit exactly when its child returns one for
\* the transformed ray and the same (t0, t1), and changes only its own
\* fields: FlipFace the normal (negated), Translate the point (plus the
\* offset), Rotate the point and the normal; t, material, u and v pass
\* through unchanged, and FlipFace twice yields the child's HitInfo.
C17_DecoratorsFrame ==
    Decorated =>
        /\ IsSome(hres) <=> IsSome(ChildHit)
        /\ IsSome(hres) =>
            LET h == Unwrap(hres)
                c == Unwrap(ChildHit)
            IN  /\ h.t = c.t /\ h.m = c.m /\ h.u = c.u /\ h.v = c.v
                /\ hshape.kind = "FlipFace" =>
                        h.p = c.p /\ h.n = Neg3(c.n)
                /\ hshape.kind = "Translate" =>
                        h.n = c.n /\ h.p = Add3(c.p, hshape.offset)
                /\ hshape.kind = "Rotate" =>
                        /\ h.p = QuatRotate(hshape.quat, c.p)
                        /\ h.n = QuatRotate(hshape.quat, c.n)
        /\ (hshape.kind = "FlipFace" /\ hshape.shape.kind = "FlipFace") =>
                hres = Hit(hshape.shape.shape, hray, ht0, ht1)

\* A hit through Translate over Rotate over FlipFace: the point has moved
\* by the offset and the child's ray is not the caller's
C17_WitnessNested ==
    /\ Decorated
    /\ hshape.kind = "Translate"
    /\ hshape.shape.kind = "Rotate"
    /\ IsSome(hres)
    /\ Unwrap(hres).p # Unwrap(ChildHit).p
    /\ ChildRay # hray

BoxQueried == hpc = "hit" /\ hshape.kind = "Box3D"

\* The Rect of a face, under its FlipFace when it has one
FaceRect(face) == IF face.kind = "FlipFace" THEN face.shape ELSE face

\* The coordinate a Rect's plane fixes: 1 for YZ, 2 for XZ, 3 for XY
FaceAxis(face) ==
    CASE FaceRect(face).axis = "XY" -> 3
      [] FaceRect(face).axis = "XZ" -> 2
      [] FaceRect(face).axis = "YZ" -> 1

\* +axis on the p1 side of the box, -axis on the p0 side
OutwardNormal(box, face) ==
    LET axis == [i \in 1..3 |-> IF i = FaceAxis(face) THEN I(1) ELSE I(0)]
    IN  IF FaceRect(face).k = box.p1[FaceAxis(face)] THEN axis
        ELSE Neg3(axis)

\* Six Rect faces, two per axis at the p0 and p1 coordinate, one material,
\* the p0 side of each pair under FlipFace
SixFaces(box) ==
    LET faces == box.shapes.objects
    IN  /\ Len(faces) = 6
        /\ \A i \in 1..6 :
            /\ FaceRect(faces[i]).kind = "Rect"
            /\ FaceRect(faces[i]).material = FaceRect(faces[1]).material
            /\ FaceRect(faces[i]).k \in
                  {box.p0[FaceAxis(faces[i])], box.p1[FaceAxis(faces[i])]}
            /\ faces[i].kind = "FlipFace" <=>
                  FaceRect(faces[i]).k = box.p0[FaceAxis(faces[i])]
        /\ \A a \in 1..3 :
            {FaceRect(faces[i]).k : i \in {j \in 1..6 : FaceAxis(faces[j]) = a}}
                = {box.p0[a], box.p1[a]}

\* The faces that report a hit when queried alone on (t0, t1)
FacesHit ==
    {i \in 1..6 : IsSome(Hit(hshape.shapes.objects[i], hray, ht0, ht1))}

FaceT(i) == Unwrap(Hit(hshape.shapes.objects[i], hray, ht0, ht1)).t

\* C18: Box3D::new(p0, p1, m) with p0 < p1 builds six Rect faces, two per
\* axis at p0 and p1, sharing m, the p0 side under FlipFace; for every ray
\* that hits the box the returned normal is the outward axis direction of
\* the face that was hit and the hit is the nearest of the six faces.
C18_BoxFaces ==
    BoxQueried =>
        /\ SixFaces(hshape)
        /\ IsSome(hres) =>
            \E i \in FacesHit :
                /\ FEq(FaceT(i), Unwrap(hres).t)
                /\ Unwrap(hres).n = OutwardNormal(hshape, hshape.shapes.objects[i])
                /\ \A j \in FacesHit : FLe(Unwrap(hres).t, FaceT(j))

\* C18 holds of every query in which no face returns a NaN parameter.
C18_BoxFacesUnlessNaN ==
    (BoxQueried /\ \A j \in FacesHit : ~IsNaN(FaceT(j))) =>
        /\ SixFaces(hshape)
        /\ IsSome(hres) =>
            \E i \in FacesHit :
                /\ FEq(FaceT(i), Unwrap(hres).t)
                /\ Unwrap(hres).n = OutwardNormal(hshape, hshape.shapes.objects[i])
                /\ \A j \in FacesHit : FLe(Unwrap(hres).t, FaceT(j))

(***************************************************************************)
(* Claims about the builder machine                                        *)
(***************************************************************************)
NeedsTexture == {"lambertian", "metal", "diffuse_light"}
NeedsMaterial == ShapeStages
NeedsShape == {"flip_face", "translate", "rotate", "build"}

\* The last call was a misuse: the field the stage unwraps was empty
Misused ==
    \/ blast.stage \in NeedsTexture /\ ~IsSome(blast.pre.texture)
    \/ blast.stage \in NeedsMaterial /\ ~IsSome(blast.pre.material)
    \/ blast.stage \in NeedsShape /\ ~IsSome(blast.pre.shape)

\* C5: every ShapeBuilder misuse (a texture-consuming material stage with no
\* pending texture, a shape stage with no pending material, a decorator or
\* build with no pending shape) panics at the offending call and never
\* yields a shape; build returns a shape only if a shape stage succeeded
\* earlier in the chain.
C5_MisusePanics ==
    /\ Misused => (builder.panicked /\ bout = None
                   /\ builder.texture = blast.pre.texture
                   /\ builder.material = blast.pre.material
                   /\ builder.shape = blast.pre.shape)
    /\ builder.panicked => bout = None
    /\ IsSome(bout) => bshaped

C5_WitnessMisuse ==
    /\ Misused
    /\ blast.stage = "sphere"
    /\ IsSome(blast.pre.texture)
    /\ builder.panicked

\* The shape a shape stage of the machine builds around material m
StageShape(stage, m) ==
    CASE stage = "sphere" -> SphereNew(V3(0, 0, 0), I(5), m)
      [] stage = "rect_xy" -> RectNew(I(-4), I(4), I(-4), I(4), I(0), "XY", m)
      [] stage = "rect_xz" -> RectNew(I(-4), I(4), I(-4), I(4), I(0), "XZ", m)
      [] stage = "rect_yz" -> RectNew(I(-4), I(4), I(-4), I(4), I(0), "YZ", m)
      [] stage = "box3d" -> Box3DNew(V3(-3, -3, -3), V3(3, 3, 3), m)

\* The decorator a decorator stage of the machine puts around a shape
StageDecorator(stage, shape) ==
    CASE stage = "flip_face" -> FlipFaceNew(shape)
      [] stage = "translate" -> TranslateNew(shape, V3(0, 0, 1))
      [] stage = "rotate" -> RotateNew(shape, Yaxis, HalfTurn)

\* The shape of the last shape stage inside the first n - 1 decorators
\* called after it, the first called innermost
RECURSIVE Wrapped(_)
Wrapped(n) ==
    IF n = 1 THEN StageShape(bchain[1].stage, Unwrap(bchain[1].material))
    ELSE StageDecorator(bchain[n].stage, Wrapped(n - 1))

TextureConsuming == NeedsTexture \cup {"material"}

\* C22: after any sequence of ShapeBuilder calls that does not panic, the
\* stages are consumed one-way: every texture-consuming material stage and
\* material() leave the pending texture empty, every shape stage leaves the
\* pending material empty (so a second shape stage without a new material
\* stage panics), dielectric() leaves a pending texture in place, and build
\* returns the shape of the last shape stage wrapped by exactly the
\* decorators called after it, in call order, with any earlier shape and
\* any leftover texture or material discarded without error.
C22_StagesOneWay ==
    /\ (~builder.panicked /\ blast.stage \in TextureConsuming) =>
            (builder.texture = None /\ IsSome(builder.material))
    /\ (~builder.panicked /\ blast.stage \in ShapeStages) =>
            (builder.material = None /\ builder.texture = blast.pre.texture)
    /\ (blast.stage \in ShapeStages /\ IsSome(blast.pre.shape)
            /\ blast.pre.material = None) => builder.panicked
    /\ blast.stage = "dielectric" =>
            (~builder.panicked /\ builder.texture = blast.pre.texture
             /\ IsSome(builder.material))
    /\ (~builder.panicked /\ IsSome(builder.shape)) =>
            builder.shape = Some(Wrapped(Len(bchain)))
    /\ (blast.stage = "build" /\ IsSome(blast.pre.shape)) =>
            (~builder.panicked /\ bout = Some(Wrapped(Len(bchain))))
    /\ IsSome(bout) => blast.stage = "build"

\* build() returns a flipped rectangle of glass; the texture that
\* dielectric() left pending is dropped with the builder
C22_WitnessLeftovers ==
    /\ IsSome(bout)
    /\ IsSome(blast.pre.texture)
    /\ Len(bchain) = 2
    /\ bchain[1].stage = "rect_xy"
    /\ Unwrap(bchain[1].material).kind = "Dielectric"
    /\ Unwrap(bout).kind = "FlipFace"

(***************************************************************************)
(* Claims about the trace machine                                          *)
(***************************************************************************)
\* The calls made so far: call i has depth D - (i - 1), every call that
\* recursed had depth > 0, no depth - 1 underflowed, and at most D + 1
\* intersection tests were made
C3_DepthBounded ==
    tpc # "idle" =>
        /\ tpc # "overflow"
        /\ ttests <= targs.depth + 1
        /\ tdepth >= 0
        /\ \A i \in 1..Len(tlog) : tlog[i].depth = targs.depth - (i - 1)
        /\ Len(tstack) <= Len(tlog)
        /\ \A i \in 1..Len(tstack) : tlog[i].depth > 0
        /\ tpc \in {"call", "tested", "shaded"} =>
                tdepth = targs.depth - Len(tstack)

\* The steps one trace can still take, at most: three per call still to be
\* made or running, one per waiting caller, one to finish
TraceRank ==
    CASE tpc = "call" -> 4 * tdepth + Len(tstack) + 5
      [] tpc = "tested" -> 4 * tdepth + Len(tstack) + 4
      [] tpc = "shaded" -> 4 * tdepth + Len(tstack) + 3
      [] tpc = "return" -> Len(tstack) + 1
      [] OTHER -> 0

C3_RankDecreases ==
    tpc # "idle" => (TraceRank' < TraceRank /\ TraceRank' >= 0)

\* C3: trace(ray, depth) terminates for every scene and starting depth D
\* (every step of a trace lowers a rank that stays non-negative): each
\* recursive call has depth exactly one smaller than its caller, none is
\* made at depth 0 (depth - 1 never underflows), and one trace performs at
\* most D + 1 intersection tests.
C3_Terminates == []C3_DepthBounded /\ [][C3_RankDecreases]_tvars

\* A trace from the largest depth that used all its D + 1 tests
C3_WitnessDeepest ==
    /\ tpc = "done"
    /\ targs.depth = MaxDepth
    /\ ttests = MaxDepth + 1
    /\ Len(tlog) = MaxDepth + 1

\* What the recurrence of trace gives for call i of the record
RECURSIVE Expected(_)
Expected(i) ==
    LET call == tlog[i]
    IN  IF ~IsSome(call.hit_info)
        THEN Background(tscene, call.ray.direction)
        ELSE LET hit == Unwrap(call.hit_info)
                 emitted == MaterialEmitted(hit.m, call.ray, hit)
             IN  IF call.depth > 0 /\ IsSome(call.shade.scatter_info)
                 THEN Add3(emitted,
                           Mul3(Unwrap(call.shade.scatter_info).albedo,
                                Expected(i + 1)))
                 ELSE emitted

\* C4: trace returns the background on a miss; on a hit it returns
\* emitted + albedo * trace(scattered_ray, depth - 1) when depth > 0 and
\* scatter succeeds, and exactly emitted otherwise; scatter is never
\* attempted when depth = 0.
C4_Recurrence ==
    /\ \A i \in 1..Len(tlog) : tlog[i].attempted => tlog[i].depth > 0
    /\ \A i \in 1..(Len(tlog) - 1) :
        /\ IsSome(tlog[i].shade.scatter_info)
        /\ tlog[i + 1].ray = Unwrap(tlog[i].shade.scatter_info).ray
        /\ tlog[i + 1].depth = tlog[i].depth - 1
    /\ tpc \in {"return", "done"} => tret = Expected(Len(tstack) + 1)

\* A finished trace that scattered twice, off different colours, and then
\* left the scene into a background that is not black
C4_WitnessBounces ==
    /\ tpc = "done"
    /\ Len(tlog) = 3
    /\ ~IsSome(tlog[3].hit_info)
    /\ Unwrap(tlog[1].shade.scatter_info).albedo
            # Unwrap(tlog[2].shade.scatter_info).albedo
    /\ tret # Zero3
    /\ tret # Background(tscene, tlog[3].ray.direction)

\* The explicit loop, run on the scene's answers to the calls of the
\* record: iteration i at the given depth with the running throughput
\* (product of albedos) and radiance (sum of throughput-weighted emissions,
\* then the background term); it yields the colour and the iterations made
RECURSIVE Loop(_, _, _, _)
Loop(i, depth, throughput, radiance) ==
    IF i > Len(tlog) THEN [colour |-> radiance, bounces |-> i]
    ELSE
    LET call == tlog[i]
    IN  IF ~IsSome(call.hit_info)
        THEN [colour |->
                Add3(radiance,
                     Mul3(throughput,
                          Background(tscene, call.ray.direction))),
              bounces |-> i]
        ELSE LET lit == Add3(radiance,
                             Mul3(throughput, call.shade.emitted))
             IN  IF depth > 0 /\ IsSome(call.shade.scatter_info)
                 THEN Loop(i + 1, depth - 1,
                           Mul3(throughput,
                                Unwrap(call.shade.scatter_info).albedo),
                           lit)
                 ELSE [colour |-> lit, bounces |-> i]

\* C16: the recursive trace is equivalent to an explicit loop keeping a
\* running throughput and a running radiance: for every scene, sequence of
\* scatter outcomes and starting depth, both produce the same colour and
\* both stop after the same number of bounces.
C16_LoopEquivalent ==
    tpc = "done" =>
        /\ Loop(1, targs.depth, One3, Zero3).colour = tret
        /\ Loop(1, targs.depth, One3, Zero3).bounces = Len(tlog)

\* A finished trace of two calls or more that ended on a light, after a
\* first surface that attenuates what comes back
C16_WitnessLitBounce ==
    /\ tpc = "done"
    /\ Len(tlog) >= 2
    /\ IsSome(tlog[Len(tlog)].hit_info)
    /\ tlog[Len(tlog)].shade.emitted # Zero3
    /\ Unwrap(tlog[1].shade.scatter_info).albedo # One3
    /\ tret # Zero3
    /\ tret # tlog[Len(tlog)].shade.emitted

SingleSphereAtDepth0 ==
    /\ tpc = "done"
    /\ targs.depth = 0
    /\ tscene.world \in SingleSphereWorlds

\* C8: for a single sphere and a constant background, trace with max depth
\* 0 yields exactly the background for every primary ray that misses the
\* sphere and a colour different from the background for every primary ray
\* that hits it.
C8_HitDiffersFromBackground ==
    SingleSphereAtDepth0 =>
        /\ ~IsSome(tlog[1].hit_info) =>
                tret = Background(tscene, targs.ray.direction)
        /\ IsSome(tlog[1].hit_info) =>
                tret # Background(tscene, targs.ray.direction)

\* C8, amended: a primary ray that misses the sphere yields exactly the
\* background, and one that hits it yields exactly the emitted colour of
\* the sphere's material (zero unless the material is a light), which
\* differs from the background only when that emitted colour does.
C8_HitIsEmitted ==
    SingleSphereAtDepth0 =>
        /\ ~IsSome(tlog[1].hit_info) =>
                tret = Background(tscene, targs.ray.direction)
        /\ IsSome(tlog[1].hit_info) =>
            LET m == tscene.world.objects[1].material
            IN  tret = IF m.kind = "DiffusedLight"
                       THEN TextureValue(m.emit, 0, 0, Zero3)
                       ELSE Zero3

\* A primary ray that hits a non-emissive sphere under a black background
C8_WitnessBlackOnBlack ==
    /\ SingleSphereAtDepth0
    /\ IsSome(tlog[1].hit_info)
    /\ tscene.world.objects[1].material.kind = "Lambertian"
    /\ tret = Background(tscene, targs.ray.direction)

RECURSIVE OnlyLights(_)
OnlyLights(shape) ==
    CASE shape.kind = "ShapeList" ->
            /\ shape.objects # <<>>
            /\ \A i \in 1..Len(shape.objects) : OnlyLights(shape.objects[i])
      [] shape.kind \in {"Sphere", "Rect"} ->
            shape.material.kind = "DiffusedLight"
      [] shape.kind = "Box3D" -> OnlyLights(shape.shapes)
      [] OTHER -> OnlyLights(shape.shape)

LightsOnlyAtDepth1 ==
    /\ tpc = "done"
    /\ targs.depth = 1
    /\ tscene.kind = "CornelBoxScene"
    /\ OnlyLights(tscene.world)

C6_BackupFirst ==
    /\ rpc = "idle" =>
        /\ rpc' = "tracing"
        /\ output # "absent" => (backup' = output /\ output' = "absent")
    /\ (pending' # pending \/ img' # img \/ output' \in {"latest", "partial"})
            => (rpc' = "tracing" \/ rpc # "idle")

\* Once a render has been saved, the most recent saved render is the output
\* file or the backup file
C6_LatestKept == succeeded => (output = "latest" \/ backup = "latest")

\* C6: in every run an existing output file is renamed to the backup name
\* before any pixel is traced and before the new output is written;
\* consequently, over any sequence of runs some of which abort after the
\* backup step, once a render has succeeded the most recent successfully
\* written render is always present as the output file or the backup file.
C6_Retention == [][C6_BackupFirst]_rvars /\ []C6_LatestKept

\* What a run that lets only saves that finish touch the output keeps
C6_LatestKeptUnlessPartial ==
    (succeeded /\ output # "partial" /\ backup # "partial")
        => (output = "latest" \/ backup = "latest")

\* Each pixel is in exactly one place: not yet handed out, held by exactly
\* one worker, or written once; no more workers are busy than there are;
\* when for_each has returned every pixel has been written once and holds
\* the rgb of its own coordinates and draws
C7_WrittenOnce ==
    /\ \A px \in Pixels :
        /\ writes[px] <= 1
        /\ writes[px] = 1 => img[px] = PixelRgb(px[1], px[2], rdraws[px])
        /\ writes[px] = 0 => img[px] = Blank
        /\ rpc = "tracing" =>
            workers[px] + writes[px] + (IF px \in pending THEN 1 ELSE 0) = 1
    /\ Busy(workers, Pixels) <= NumWorkers
    /\ rpc \in {"joined", "saved"} => \A px \in Pixels : writes[px] = 1
    /\ output = "latest" /\ rpc = "saved" =>
            img = [px \in Pixels |-> PixelRgb(px[1], px[2], rdraws[px])]

\* A step of the tracing changes the image at one pixel at most, one that
\* a worker holds, and leaves the workers on other pixels alone; the output
\* file changes only once for_each has returned
C7_OwnPixelOnly ==
    /\ (rpc = "tracing" /\ rpc' = "tracing") =>
        \E px \in Pixels :
            /\ \A o \in Pixels \ {px} :
                workers'[o] = workers[o] /\ img'[o] = img[o]
            /\ img'[px] # img[px] => workers[px] > 0
            /\ UNCHANGED <<output, backup, rdraws>>
    /\ output' # output /\ output' # "absent" => rpc = "joined"

\* C7: under any partition and interleaving of pixels across workers, each
\* of the W x H pixels is written exactly once by exactly one worker, no
\* worker touches another pixel or other shared mutable state, the image is
\* saved only after every pixel has been written, and the final image
\* depends only on the per-pixel draws, not on the order of processing.
C7_PixelsIndependent == []C7_WrittenOnce /\ [][C7_OwnPixelOnly]_rvars

\* Two workers hold different pixels at once, the last pixel of the raster
\* already written while the first has not been handed out
C7_WitnessOutOfOrder ==
    /\ rpc = "tracing"
    /\ writes[<<ImgW - 1, ImgH - 1>>] = 1
    /\ <<0, 0>> \in pending
    /\ Busy(workers, Pixels) = 2

\* The (u, v) handed to camera.ray for each sample of the written pixels
ScreenCoords ==
    {img[px].rgb[i].trace : px \in {q \in Pixels : writes[q] > 0},
                            i \in 1..Spp}

\* C21: for every image size with width >= 2 and height >= 2, every pixel
\* (x, y) and every jitter (rx, ry) in [0,1) x [0,1), the normalized screen
\* coordinates (u, v) that render_aa_with_depth passes to Camera::ray lie
\* in the unit square.
C21_ScreenCoordsInUnitSquare ==
    \A uv \in ScreenCoords :
        /\ FLe(I(0), uv[1]) /\ FLe(uv[1], I(1))
        /\ FLe(I(0), uv[2]) /\ FLe(uv[2], I(1))

\* What the division by w - 1 and h - 1 does keep: u below w / (w - 1) and
\* v below h / (h - 1)
C21_ScreenCoordsBelowNextPixel ==
    \A uv \in ScreenCoords :
        /\ FLe(I(0), uv[1]) /\ FLt(uv[1], F(ImgW, ImgW - 1))
        /\ FLe(I(0), uv[2]) /\ FLt(uv[2], F(ImgH, ImgH - 1))

(***************************************************************************)
(* Claims about the quaternion machine                                     *)
(***************************************************************************)
\* C10: for a rotation quaternion q built by from_rot from a unit axis (any
\* direction) and any angle, and every point p, q.conj().rotate(q.rotate(p))
\* equals p.
C10_RoundTrip == qpc = "back" => qb = qp

\* The Hamilton product a * b of two quaternions [v, w]
HamiltonProduct(a, b) ==
    LET x1 == a.v[1]
        y1 == a.v[2]
        z1 == a.v[3]
        w1 == a.w
        x2 == b.v[1]
        y2 == b.v[2]
        z2 == b.v[3]
        w2 == b.w
        sum4(k, l, m, n) == FAdd(FAdd(FAdd(k, l), m), n)
    IN  [v |-> Float3New(
                sum4(FMul(w1, x2), FMul(x1, w2), FMul(y1, z2),
                     FNeg(FMul(z1, y2))),
                sum4(FMul(w1, y2), FMul(y1, w2), FMul(z1, x2),
                     FNeg(FMul(x1, z2))),
                sum4(FMul(w1, z2), FMul(z1, w2), FMul(x1, y2),
                     FNeg(FMul(y1, x2)))),
         w |-> sum4(FMul(w1, w2), FNeg(FMul(x1, x2)), FNeg(FMul(y1, y2)),
                    FNeg(FMul(z1, z2)))]

\* The vector part of q * (p, 0) * conj(q)
Sandwich(q, p) ==
    HamiltonProduct(HamiltonProduct(q, [v |-> p, w |-> I(0)]), QuatConj(q)).v

\* p is parallel to the axis of q: their cross product is zero
ParallelToAxis(q, p) ==
    /\ FEq(FMul(q.v[2], p[3]), FMul(q.v[3], p[2]))
    /\ FEq(FMul(q.v[3], p[1]), FMul(q.v[1], p[3]))
    /\ FEq(FMul(q.v[1], p[2]), FMul(q.v[2], p[1]))

\* C20: Quat::rotate(p) returns the vector part of q * (p, 0) * conj(q)
\* under the Hamilton product; for a unit-axis rotation quaternion about any
\* axis a vector parallel to the axis is returned unchanged and the length
\* of every vector is preserved.
C20_Sandwich ==
    qpc \in {"rotated", "back"} =>
        /\ qr = Sandwich(quat, qp)
        /\ ParallelToAxis(quat, qp) => qr = qp
        /\ FEq(LengthSquared(qr), LengthSquared(qp))

\* C20 holds of every rotation about an axis with no z component.
C20_SandwichWithoutZ ==
    (qpc \in {"rotated", "back"} /\ FEq(quat.v[3], I(0))) =>
        /\ qr = Sandwich(quat, qp)
        /\ ParallelToAxis(quat, qp) => qr = qp
        /\ FEq(LengthSquared(qr), LengthSquared(qp))

(***************************************************************************)
(* Claims about the texture machine                                        *)
(***************************************************************************)
ImageQueried == xpc = "value" /\ xtex.kind = "ImageTexture"

Clamp(k, lo, hi) == IF k < lo THEN lo ELSE IF k > hi THEN hi ELSE k

\* The pixel at a column and a row of the row-major buffer
PixelAt(texture, column, row) ==
    texture.pixels[column + texture.width * row + 1]

\* C12: for an ImageTexture with width >= 1 and height >= 1 and any (u, v),
\* value(u, v, p) reads the pixel at column clamp(trunc(u * width), 0,
\* width - 1) and row clamp(trunc((1 - v) * height), 0, height - 1) of the
\* row-major buffer; the index is always within the buffer, so sampling
\* never panics.
C12_SampleInBounds ==
    (ImageQueried /\ xtex.width >= 1 /\ xtex.height >= 1) =>
        /\ xval # "panic"
        /\ \E column \in 0..(xtex.width - 1), row \in 0..(xtex.height - 1) :
                xval = PixelAt(xtex, column, row)
        /\ (IsFin(xu) /\ IsFin(xv)) =>
            xval = PixelAt(xtex,
                       Clamp(Trunc(FMul(xu, I(xtex.width))),
                             0, xtex.width - 1),
                       Clamp(Trunc(FMul(FSub(I(1), xv), I(xtex.height))),
                             0, xtex.height - 1))

\* u beyond 1 and v below 0 on the 3 x 2 image: the last pixel is read
C12_WitnessOutside ==
    /\ ImageQueried
    /\ xtex.width = 3
    /\ xtex.height = 2
    /\ FGt(xu, I(1))
    /\ FLt(xv, I(0))
    /\ xval = xtex.pixels[6]

CheckerQueried == xpc = "value" /\ xtex.kind = "CheckerTexture"

\* The sign of sin(freq * c): 0 at c = 0, else that of the half period of
\* sin that freq * c lies in
SineSign(texture, c) ==
    LET a == FMul(c, texture.freq)
    IN  IF a.n = 0 THEN 0
        ELSE IF HalfPeriods(a) % 2 = 0 THEN 1 ELSE -1

\* sin(freq x) sin(freq y) sin(freq z) is negative at p
ProductNegative(texture, p) ==
    SineSign(texture, p[1]) * SineSign(texture, p[2])
        * SineSign(texture, p[3]) < 0

Selected(texture, p) ==
    IF ProductNegative(texture, p) THEN texture.odd ELSE texture.even

\* q is p moved along one axis into the next half period of that axis'
\* sine, no sine factor being zero at p or at q
AcrossOneBoundary(texture, p, q) ==
    /\ \A i \in 1..3 :
        SineSign(texture, p[i]) # 0 /\ SineSign(texture, q[i]) # 0
    /\ \E i \in 1..3 :
        /\ \A j \in (1..3) \ {i} : q[j] = p[j]
        /\ Abs(HalfPeriods(FMul(q[i], texture.freq))
                - HalfPeriods(FMul(p[i], texture.freq))) = 1

\* C19: CheckerTexture::value selects the odd child exactly when
\* sin(freq x) sin(freq y) sin(freq z) is negative and the even child
\* otherwise (zero included), independent of (u, v); moving the sample
\* point across a single axis-aligned half-period boundary, the other two
\* sine factors non-zero, switches the selected child.
C19_CheckerSelects ==
    CheckerQueried =>
        /\ xval = TextureValue(Selected(xtex, xp), xu, xv, xp)
        /\ \A u \in TexCoords, v \in {I(0), F(2, 3)} :
            TextureValue(xtex, u, v, xp)
                = TextureValue(Selected(xtex, xp), u, v, xp)
        /\ \A c \in CheckerCoords, i \in 1..2 :
            LET q == [xp EXCEPT ![i] = c]
            IN  AcrossOneBoundary(xtex, xp, q) =>
                    /\ Selected(xtex, q) # Selected(xtex, xp)
                    /\ TextureValue(xtex, xu, xv, q)
                        = TextureValue(Selected(xtex, q), xu, xv, q)

\* The odd child selected by two positive sines and a negative one, with a
\* sample point one half period away at which the even child is
C19_WitnessOdd ==
    /\ CheckerQueried
    /\ ProductNegative(xtex, xp)
    /\ xval = TextureValue(xtex.odd, xu, xv, xp)
    /\ xval # TextureValue(xtex.even, xu, xv, xp)
    /\ \E c \in CheckerCoords :
        /\ AcrossOneBoundary(xtex, xp, [xp EXCEPT ![1] = c])
        /\ TextureValue(xtex, xu, xv, [xp EXCEPT ![1] = c])
            = TextureValue(xtex.even, xu, xv, [xp EXCEPT ![1] = c])

(***************************************************************************)
(* Claims about the dielectric machine                                     *)
(***************************************************************************)
\* What refract returns for the incident ray of the call
RefractedOf ==
    LET frame == DielectricFrame(dmat, dray, dhit)
    IN  Refract(Neg3(dray.direction), frame.outward_normal, frame.ni_over_nt)

\* C14: Dielectric::scatter never returns none: it returns a scattered ray
\* originating at the hit point with attenuation (1,1,1); whenever
\* refraction is impossible the scattered direction is the specular
\* reflection of the incident direction, and the refracted direction is
\* used only when refraction is possible and the random draw exceeds the
\* Schlick reflectance.
C14_AlwaysScatters ==
    dpc = "scattered" =>
        /\ IsSome(dout)
        /\ Unwrap(dout).ray.origin = dhit.p
        /\ Unwrap(dout).albedo = One3
        /\ ~IsSome(RefractedOf) =>
            Unwrap(dout).ray.direction = Reflect(dray.direction, dhit.n)
        /\ Unwrap(dout).ray.direction # Reflect(dray.direction, dhit.n) =>
            /\ IsSome(RefractedOf)
            /\ Unwrap(dout).ray.direction = Unwrap(RefractedOf)
            /\ FGt(drnd, DielectricSchlick(
                           DielectricFrame(dmat, dray, dhit).cosine, dmat.ri))

\* Total internal reflection: a ray leaving glass at a shallow angle is
\* reflected
C14_WitnessTotalReflection ==
    /\ dpc = "scattered"
    /\ dray.direction = V3(0, 4, -3)
    /\ FGt(Dot(dray.direction, dhit.n), I(0))
    /\ ~IsSome(RefractedOf)
    /\ IsSome(dout)
    /\ Unwrap(dout).ray.direction = V3(0, 4, 3)

(***************************************************************************)
(* Claims about the pixel machine                                          *)
(***************************************************************************)
\* The sum of the first n samples, from Color::zero()
RECURSIVE SumOfSamples(_)
SumOfSamples(n) ==
    IF n = 0 THEN Zero3 ELSE Add3(SumOfSamples(n - 1), gsamples[n])

\* trunc(clamp(c, 0, 1) * 255.99), for a c that is a number
Quantized(c) ==
    Trunc(FMul(IF FLt(c, I(0)) THEN I(0) ELSE IF FGt(c, I(1)) THEN I(1) ELSE c,
               F(25599, 100)))

\* Channel values the quantization is compared on
QuantProbes ==
    {NInf, I(-1), I(0), F(1, 25599), F(1, 256), F(1, 32), F(100, 25599),
     F(1, 2), F(255, 256), F(25500, 25599), I(1), F(3, 2), I(32), PInf}

\* C13: for each pixel the steps come in this order: sum of the spp traced
\* samples, division by spp, gamma encoding, then per-channel quantization
\* to trunc(clamp(c, 0, 1) * 255.99); the quantized channel is always an
\* integer in 0..255, is 0 for every c <= 0, 255 for every c >= 1, and is
\* monotonically non-decreasing in c.
C13_PixelPipeline ==
    /\ gpc = "fold" => gacc = SumOfSamples(gi)
    /\ gpc = "mean" => gacc = Div3(SumOfSamples(Spp), I(Spp))
    /\ gpc = "written" =>
        \A ch \in 1..3 :
            LET c == Float3Gamma(Div3(SumOfSamples(Spp), I(Spp)),
                                 GAMMA_FACTOR)[ch]
            IN  /\ grgb[ch] \in 0..255
                /\ ~IsNaN(c) => grgb[ch] = Quantized(c)
                /\ FLe(c, I(0)) => grgb[ch] = 0
                /\ FLe(I(1), c) => grgb[ch] = 255
                /\ \A o \in QuantProbes :
                    /\ ChannelU8(o) \in 0..255
                    /\ ChannelU8(o) = Quantized(o)
                    /\ FLe(c, o) => grgb[ch] <= ChannelU8(o)
                    /\ FLe(o, c) => ChannelU8(o) <= grgb[ch]

\* A pixel of one bright sample among black ones: the mean 1/2048 of its
\* green channel is lifted by the gamma encoding to 1/32, which is byte 7
C13_WitnessGammaLifts ==
    /\ gpc = "written"
    /\ gsamples[1] # gsamples[Spp]
    /\ gacc = Float3New(I(0), F(1, 2048), I(1))
    /\ grgb = <<0, 7, 255>>

====
